---- MODULE Spec2Model ----
(***************************************************************************)
(* Splunk DDSS journal decoder: the buffered byte stream, the varint       *)
(* codecs, the symbol/state tables and the opcode dispatcher of            *)
(* AsyncJournalDecoder (async_decoder.py, async_stream.py) and of the      *)
(* synchronous JournalDecoder (decoder.py).                                *)
(*                                                                         *)
(* Bytes are integers 0..255, byte strings are sequences of bytes, text    *)
(* strings are sequences of code points.  Python exceptions are values:    *)
(* every operation returns a record that carries the exception it raised   *)
(* (NoError when it returned normally).                                    *)
(***************************************************************************)
EXTENDS Integers, Sequences, FiniteSets, TLC

(***************************************************************************)
(* Bounds of the model.                                                    *)
(***************************************************************************)
\* longest journal, in records
MaxRecs == 3
\* most bytes cut from the end of the last record of a journal
MaxTrunc == 2

(***************************************************************************)
(* Python built-ins the code relies on.                                    *)
(***************************************************************************)
\* a local variable: the statements Op that follow the assignment of v
With(v, Op(_)) == Op(v)

Min(a, b) == IF a < b THEN a ELSE b

Max(a, b) == IF a > b THEN a ELSE b

\* a slice bound as Python normalises it: negative counts from the end
PyBound(i, len) == IF i < 0 THEN Max(i + len, 0) ELSE Min(i, len)

\* data[a:b]
PySlice(data, a, b) ==
    LET lo == PyBound(a, Len(data))
        hi == PyBound(b, Len(data))
    IN  IF lo < hi THEN SubSeq(data, lo + 1, hi) ELSE <<>>

\* data[a:], also what `del data[:a]` leaves
PyFrom(data, a) == PySlice(data, a, Len(data))

\* x & mask != 0, for a one-bit mask
BitSet(x, mask) == (x \div mask) % 2 = 1

NoError == [kind |-> "None", what |-> "", arg |-> 0]

Raise(kind, what) == [kind |-> kind, what |-> what, arg |-> 0]

EOFError == Raise("EOFError", "End of stream")

\* not an exception: a coroutine that waits in `await self.reader.read(...)`
\* for the event loop to resume it; it unwinds through every caller as the
\* await does, and no `except` sees it
Suspended == Raise("Suspended", "await self.reader.read")

\* struct.unpack("<Q", b): an unsigned 64-bit value, held as its 8
\* little-endian bytes (the model's integers are 32 bits wide); struct.error
\* unless b has exactly 8 bytes
UnpackU64(b) ==
    IF Len(b) = 8 THEN [v |-> b, exc |-> NoError]
    ELSE [v |-> b, exc |-> Raise("struct.error", "unpack requires a buffer of 8 bytes")]

\* struct.unpack("<i", b): 4 bytes, little endian, two's complement
UnpackI32(b) ==
    LET lo == b[1] + 256 * b[2] + 65536 * b[3]
    IN  IF b[4] < 128 THEN lo + 16777216 * b[4]
        ELSE (lo + 16777216 * (b[4] - 128)) - 1073741824 - 1073741824

(***************************************************************************)
(* bytes.decode("utf-8", errors="replace"), for one- and two-byte          *)
(* sequences: an ASCII byte is its own code point, a lead byte C2..DF      *)
(* followed by a continuation byte 80..BF is one code point, any other     *)
(* byte of these ranges is replaced by U+FFFD.                             *)
(***************************************************************************)
RECURSIVE Utf8DecodeReplace(_)
Utf8DecodeReplace(b) ==
    IF b = <<>> THEN <<>>
    ELSE IF b[1] < 128 THEN <<b[1]>> \o Utf8DecodeReplace(Tail(b))
    ELSE IF /\ b[1] >= 194 /\ b[1] <= 223 /\ Len(b) >= 2
            /\ b[2] >= 128 /\ b[2] <= 191
         THEN <<(b[1] - 192) * 64 + (b[2] - 128)>> \o Utf8DecodeReplace(Tail(Tail(b)))
    ELSE <<65533>> \o Utf8DecodeReplace(Tail(b))

(***************************************************************************)
(* Varint codecs (decoder.py).                                             *)
(***************************************************************************)
\* the loop of decode_uvarint_from_bytes: i runs over range(offset, len(data))
\* and data[i] is Python indexing, so a negative i counts from the end
RECURSIVE uvarint_from_bytes_loop(_, _, _, _, _)
uvarint_from_bytes_loop(data, i, n, result, weight) ==
    IF i >= Len(data) THEN [value |-> 0, n |-> -1, exc |-> NoError]
    ELSE IF i < -Len(data)
         THEN [value |-> 0, n |-> 0, exc |-> Raise("IndexError", "index out of range")]
    ELSE With(data[(IF i < 0 THEN i + Len(data) ELSE i) + 1], LAMBDA b :
         With(IF b % 128 = 0 THEN result ELSE result + (b % 128) * weight, LAMBDA r :
             IF b < 128 THEN [value |-> r, n |-> n + 1, exc |-> NoError]
             ELSE uvarint_from_bytes_loop(data, i + 1, n + 1, r, weight * 128)))

decode_uvarint_from_bytes(data, offset) ==
    uvarint_from_bytes_loop(data, offset, 0, 0, 1)

\* (u >> 1) ^ -(u & 1)
ZigZag(u) == IF u % 2 = 0 THEN u \div 2 ELSE -((u + 1) \div 2)

decode_varint_from_bytes(data, offset) ==
    With(decode_uvarint_from_bytes(data, offset), LAMBDA r :
        IF r.exc # NoError \/ r.n = -1 THEN [r EXCEPT !.value = 0]
        ELSE [r EXCEPT !.value = ZigZag(r.value)])

\* imported by async_decoder.py, not defined in decoder.py: the shifted
\* varint of the specification, value = u >> 1, with the (0, -1) signal of
\* its siblings
decode_shifted_varint_from_bytes(data, offset) ==
    With(decode_uvarint_from_bytes(data, offset), LAMBDA r :
        IF r.exc # NoError \/ r.n = -1 THEN [r EXCEPT !.value = 0]
        ELSE [r EXCEPT !.value = r.value \div 2])

(***************************************************************************)
(* AsyncJournalStream (async_stream.py).  A stream is a record             *)
(*   src        the bytes the source has not handed out yet                *)
(*   buffer     bytes pulled and not consumed                              *)
(*   eof        the source has returned an empty chunk                     *)
(*   pos        absolute position                                          *)
(*   chunk_size smallest pull                                              *)
(* Every operation returns [s, v, exc]: the stream after it, its value,    *)
(* the exception raised.                                                   *)
(***************************************************************************)
Stream_init(data, chunk) ==
    [src |-> data, buffer |-> <<>>, eof |-> FALSE, pos |-> 0, chunk_size |-> chunk]

\* the source's read(n): up to n bytes, empty at end of data
Source_read(src, n) == PySlice(src, 0, n)

\* what a source grants of a read of `ask` bytes: all of it, or at most
\* s.cap bytes when the stream is over a source that returns short chunks
Granted(s, ask) == IF "cap" \in DOMAIN s /\ s.cap < ask THEN s.cap ELSE ask

\* the reads of the source the event loop lets a stream complete before the
\* coroutine has to wait: s.turns when the stream is driven by an event loop
\* that runs other coroutines, no limit otherwise
MustWait(s) == "turns" \in DOMAIN s /\ s.turns = 0

Resumed(s) == IF "turns" \in DOMAIN s THEN [s EXCEPT !.turns = @ - 1] ELSE s

\* _fill reading the source once
Stream_fill_once(s, n) ==
    IF Len(s.buffer) < n /\ ~s.eof
    THEN With(Source_read(s.src, Granted(s, Max(s.chunk_size, n - Len(s.buffer)))), LAMBDA chunk :
             IF chunk = <<>>
             THEN [s |-> [s EXCEPT !.eof = TRUE], v |-> 0, exc |-> EOFError]
             ELSE [s |-> [s EXCEPT !.buffer = @ \o chunk, !.src = PyFrom(@, Len(chunk))],
                   v |-> 0,
                   exc |-> IF Len(s.buffer) + Len(chunk) < n THEN EOFError ELSE NoError])
    ELSE [s |-> s, v |-> 0,
          exc |-> IF Len(s.buffer) < n THEN EOFError ELSE NoError]

\* _fill asking for a chunk on top of what is missing
RECURSIVE Stream_fill_greedy(_, _)
Stream_fill_greedy(s, n) ==
    IF Len(s.buffer) < n /\ ~s.eof
    THEN With(Source_read(s.src, Granted(s, s.chunk_size + n - Len(s.buffer))), LAMBDA chunk :
             IF chunk = <<>>
             THEN [s |-> [s EXCEPT !.eof = TRUE], v |-> 0, exc |-> EOFError]
             ELSE Stream_fill_greedy([s EXCEPT !.buffer = @ \o chunk,
                                               !.src = PyFrom(@, Len(chunk))], n))
    ELSE [s |-> s, v |-> 0,
          exc |-> IF Len(s.buffer) < n THEN EOFError ELSE NoError]

\* _fill asking the source again after it has returned an empty chunk
RECURSIVE Stream_fill_retries(_, _)
Stream_fill_retries(s, n) ==
    IF Len(s.buffer) < n
    THEN With(Source_read(s.src, Granted(s, Max(s.chunk_size, n - Len(s.buffer)))), LAMBDA chunk :
             IF chunk = <<>>
             THEN [s |-> [s EXCEPT !.eof = TRUE], v |-> 0, exc |-> EOFError]
             ELSE Stream_fill_retries([s EXCEPT !.buffer = @ \o chunk,
                                                !.src = PyFrom(@, Len(chunk))], n))
    ELSE [s |-> s, v |-> 0, exc |-> NoError]

RECURSIVE Stream_fill(_, _)
Stream_fill(s, n) ==
    IF Len(s.buffer) < n /\ ~s.eof
    THEN IF MustWait(s) THEN [s |-> s, v |-> 0, exc |-> Suspended]
         ELSE
         With(Source_read(s.src, Granted(s, Max(s.chunk_size, n - Len(s.buffer)))), LAMBDA chunk :
             IF chunk = <<>>
             THEN [s |-> Resumed([s EXCEPT !.eof = TRUE]), v |-> 0, exc |-> EOFError]
             ELSE Stream_fill(Resumed([s EXCEPT !.buffer = @ \o chunk,
                                                !.src = PyFrom(@, Len(chunk))]), n))
    ELSE [s |-> s, v |-> 0,
          exc |-> IF Len(s.buffer) < n THEN EOFError ELSE NoError]

Stream_tell(s) == s.pos

\* read returning what is left when fewer than n bytes remain
Stream_read_short(s, n) ==
    IF n <= 0 THEN [s |-> s, v |-> <<>>, exc |-> NoError]
    ELSE With(Stream_fill(s, n), LAMBDA f :
             [s |-> [f.s EXCEPT !.buffer = PyFrom(@, n),
                                !.pos = @ + Min(n, Len(f.s.buffer))],
              v |-> PySlice(f.s.buffer, 0, n), exc |-> NoError])

Stream_read(s, n) ==
    IF n <= 0 THEN [s |-> s, v |-> <<>>, exc |-> NoError]
    ELSE With(Stream_fill(s, n), LAMBDA f :
             IF f.exc # NoError THEN [f EXCEPT !.v = <<>>]
             ELSE [s |-> [f.s EXCEPT !.buffer = PyFrom(@, n), !.pos = @ + n],
                   v |-> PySlice(f.s.buffer, 0, n), exc |-> NoError])

\* read_byte leaving the byte it returns in the buffer
Stream_read_byte_stays(s) ==
    With(Stream_fill(s, 1), LAMBDA f :
        IF f.exc # NoError THEN f
        ELSE [s |-> f.s, v |-> Head(f.s.buffer), exc |-> NoError])

Stream_read_byte(s) ==
    With(Stream_fill(s, 1), LAMBDA f :
        IF f.exc # NoError THEN f
        ELSE [s |-> [f.s EXCEPT !.buffer = Tail(@), !.pos = @ + 1],
              v |-> Head(f.s.buffer), exc |-> NoError])

\* peek dropping what it returns
Stream_peek_consuming(s, n) ==
    IF n <= 0 THEN [s |-> s, v |-> <<>>, exc |-> NoError]
    ELSE With(Stream_fill(s, n), LAMBDA f :
             [s |-> [f.s EXCEPT !.buffer = PyFrom(@, n)],
              v |-> PySlice(f.s.buffer, 0, n), exc |-> NoError])

Stream_peek(s, n) ==
    IF n <= 0 THEN [s |-> s, v |-> <<>>, exc |-> NoError]
    ELSE With(Stream_fill(s, n), LAMBDA f :
             IF f.exc = Suspended THEN [f EXCEPT !.v = <<>>]
             ELSE [s |-> f.s, v |-> PySlice(f.s.buffer, 0, n), exc |-> NoError])

\* skip dropping the bytes without counting them
Stream_skip_uncounted(s, n) ==
    With(Stream_fill(s, n), LAMBDA f :
        IF f.exc # NoError THEN f
        ELSE [s |-> [f.s EXCEPT !.buffer = PyFrom(@, n)], v |-> n, exc |-> NoError])

\* skip without refilling: only buffered bytes are dropped
Stream_skip_no_refill(s, n) ==
    [s |-> [s EXCEPT !.buffer = PyFrom(@, n), !.pos = @ + n], v |-> n, exc |-> NoError]

Stream_skip(s, n) ==
    With(Stream_fill(s, n), LAMBDA f :
        IF f.exc # NoError THEN f
        ELSE [s |-> [f.s EXCEPT !.buffer = PyFrom(@, n), !.pos = @ + n],
              v |-> n, exc |-> NoError])

RECURSIVE Stream_uvarint_loop(_, _, _)
Stream_uvarint_loop(s, result, weight) ==
    With(Stream_read_byte(s), LAMBDA r :
        IF r.exc # NoError THEN r
        ELSE IF r.v < 128 THEN [r EXCEPT !.v = result + (r.v % 128) * weight]
        ELSE Stream_uvarint_loop(r.s, result + (r.v % 128) * weight, weight * 128))

\* read_uvarint stopping after its first byte
Stream_read_uvarint_one_byte(s) ==
    With(Stream_read_byte(s), LAMBDA r :
        IF r.exc # NoError THEN r ELSE [r EXCEPT !.v = @ % 128])

Stream_read_uvarint(s) == Stream_uvarint_loop(s, 0, 1)

\* read_varint: the zigzag decoding of read_uvarint
Stream_read_varint(s) ==
    With(Stream_read_uvarint(s), LAMBDA u :
        IF u.exc # NoError THEN u ELSE [u EXCEPT !.v = ZigZag(@)])

\* discard that counts the dropped bytes as consumed
Stream_discard_counted(s, given, n) ==
    With(IF ~given \/ n > Len(s.buffer) THEN Len(s.buffer) ELSE n, LAMBDA m :
        [s |-> IF m > 0 THEN [s EXCEPT !.buffer = PyFrom(@, m), !.pos = @ + m] ELSE s,
         v |-> 0, exc |-> NoError])

\* discard(n), and discard() when no n is given: returns None
Stream_discard(s, given, n) ==
    With(IF ~given \/ n > Len(s.buffer) THEN Len(s.buffer) ELSE n, LAMBDA m :
        [s |-> IF m > 0 THEN [s EXCEPT !.buffer = PyFrom(@, m)] ELSE s,
         v |-> 0, exc |-> NoError])

(***************************************************************************)
(* JournalStream (stream.py): the same attributes and, method for method,  *)
(* the same statements without await, except read_varint, which passes     *)
(* self twice to read_uvarint.  A call by name: [s, v, exc].               *)
(***************************************************************************)
JournalStream_call(name, s, n) ==
    CASE name = "read" -> Stream_read(s, n)
      [] name = "read_byte" -> Stream_read_byte(s)
      [] name = "peek" -> Stream_peek(s, n)
      [] name = "skip" -> Stream_skip(s, n)
      [] name = "discard" -> Stream_discard(s, TRUE, n)
      [] name = "discard_all" -> Stream_discard(s, FALSE, 0)
      [] name = "read_uvarint" -> Stream_read_uvarint(s)
      [] name = "read_varint" ->
             [s |-> s, v |-> 0,
              exc |-> Raise("TypeError",
                            "read_uvarint() takes 1 positional argument but 2 were given")]

(***************************************************************************)
(* Opcode, RMKI_TYPES and Event (decoder.py).                              *)
(***************************************************************************)
NOP == 0

OLDSTYLE_EVENT == 1

OLDSTYLE_EVENT_WITH_HASH == 2

NEW_HOST == 3

NEW_SOURCE == 4

NEW_SOURCE_TYPE == 5

NEW_STRING == 6

DELETE == 8

SPLUNK_PRIVATE == 9

HEADER == 10

HASH_SLICE == 11

HASH_SIZE == 20

\* RMKI_TYPES with one extra integer for representation 15
RMKI_TYPES_fifteen_reads_one ==
    (0 :> 1) @@ (2 :> 1) @@ (3 :> 2) @@ (4 :> 2) @@ (6 :> 2) @@ (7 :> 3) @@
    (8 :> 1) @@ (9 :> 1) @@ (10 :> 1) @@ (11 :> 2) @@ (12 :> 3) @@ (14 :> 2) @@
    (15 :> 1)

\* representation code -> extra_ints_needed
RMKI_TYPES ==
    (0 :> 1) @@ (2 :> 1) @@ (3 :> 2) @@ (4 :> 2) @@ (6 :> 2) @@ (7 :> 3) @@
    (8 :> 1) @@ (9 :> 1) @@ (10 :> 1) @@ (11 :> 2) @@ (12 :> 3) @@ (14 :> 2) @@
    (15 :> 0)

ZeroHash == [i \in 1..HASH_SIZE |-> 0]

\* the 64-bit value 0
ZeroU64 == [i \in 1..8 |-> 0]

\* an empty Python dict
EmptyDict == [k \in {} |-> 0]

\* Event(): the dataclass fields with their defaults.  The attributes the
\* async decoder adds by assignment (index_time_diff, time_sub_seconds,
\* event_time, metadata_fields, source, sourcetype, host) exist on the
\* object only once assigned: attrs is the set of those that exist.
Event_new ==
    [message_length |-> 0, has_extended_storage |-> FALSE,
     extended_storage_len |-> 0, has_hash |-> FALSE, hash |-> ZeroHash,
     stream_id |-> ZeroU64, stream_offset |-> 0, stream_sub_offset |-> 0,
     index_time |-> 0, sub_seconds |-> 0, metadata_count |-> 0,
     message |-> <<>>, include_punctuation |-> FALSE,
     attrs |-> {}, index_time_diff |-> 0, time_sub_seconds |-> 0,
     event_time |-> 0, metadata_fields |-> EmptyDict,
     source |-> <<>>, sourcetype |-> <<>>, host |-> <<>>]

\* Event.reset: the dataclass fields only
Event_reset(e) ==
    [e EXCEPT !.message_length = 0, !.has_extended_storage = FALSE,
              !.extended_storage_len = 0, !.has_hash = FALSE, !.hash = ZeroHash,
              !.stream_id = ZeroU64, !.stream_offset = 0, !.stream_sub_offset = 0,
              !.index_time = 0, !.sub_seconds = 0, !.metadata_count = 0,
              !.message = <<>>, !.include_punctuation = FALSE]

\* self.event.<name> = value, for an attribute the dataclass does not declare
SetAttr(e, name, value) ==
    [e EXCEPT ![name] = value, !.attrs = @ \cup {name}]

Event_message_string(e) == Utf8DecodeReplace(e.message)

(***************************************************************************)
(* AsyncJournalDecoder (async_decoder.py).  A decoder is a record d with   *)
(* the attributes of the object; a handler returns [d, exc].               *)
(***************************************************************************)
Decoder_new(data, chunk) ==
    [reader |-> Stream_init(data, chunk), opcode |-> 0, event |-> Event_new,
     error |-> NoError, fields |-> EmptyDict,
     base_event_time |-> 0, base_index_time |-> 0,
     active_host |-> 0, active_source |-> 0, active_source_type |-> 0]

Ok(d) == [d |-> d, exc |-> NoError]

Fail(d, exc) == [d |-> d, exc |-> exc]

\* table[index - 1] of host()/source()/source_type(): "" when the table was
\* never created or the index is 0, IndexError past the end
ActiveLookup(fields, table, active) ==
    IF table \in DOMAIN fields /\ active > 0
    THEN IF active <= Len(fields[table])
         THEN [v |-> fields[table][active], exc |-> NoError]
         ELSE [v |-> <<>>, exc |-> Raise("IndexError", "list index out of range")]
    ELSE [v |-> <<>>, exc |-> NoError]

\* host() returning the host declared last, whatever the active index
host_last_declared(d) ==
    ActiveLookup(d.fields, NEW_HOST,
                 IF NEW_HOST \in DOMAIN d.fields THEN Len(d.fields[NEW_HOST]) ELSE 0)

host(d) == ActiveLookup(d.fields, NEW_HOST, d.active_host)

source(d) == ActiveLookup(d.fields, NEW_SOURCE, d.active_source)

source_type(d) == ActiveLookup(d.fields, NEW_SOURCE_TYPE, d.active_source_type)

is_event_opcode(opcode) ==
    \/ opcode = OLDSTYLE_EVENT
    \/ opcode = OLDSTYLE_EVENT_WITH_HASH
    \/ (opcode >= 32 /\ opcode <= 43)

\* decode_header with base_index_time left in a local variable
decode_header_local_base(d) ==
    With(Stream_read(d.reader, 6), LAMBDA r :
        IF r.exc # NoError THEN Fail([d EXCEPT !.reader = r.s], r.exc)
        ELSE Ok([d EXCEPT !.reader = r.s]))

decode_header(d) ==
    With(Stream_read(d.reader, 6), LAMBDA r :
        IF r.exc # NoError THEN Fail([d EXCEPT !.reader = r.s], r.exc)
        ELSE Ok([d EXCEPT !.reader = r.s,
                          !.base_index_time = UnpackI32(SubSeq(r.v, 3, 6))]))

\* _decode_splunk_private reading the length and leaving the payload
decode_splunk_private_keeps_payload(d) ==
    With(Stream_read_uvarint(d.reader), LAMBDA l :
        IF l.exc # NoError THEN Fail([d EXCEPT !.reader = l.s], l.exc)
        ELSE [d |-> [d EXCEPT !.reader = l.s], exc |-> NoError])

decode_splunk_private(d) ==
    With(Stream_read_uvarint(d.reader), LAMBDA l :
        IF l.exc # NoError THEN Fail([d EXCEPT !.reader = l.s], l.exc)
        ELSE With(Stream_skip(l.s, l.v), LAMBDA k :
                 [d |-> [d EXCEPT !.reader = k.s], exc |-> k.exc]))

\* [s, v, exc]: the text read
read_string_field(s) ==
    With(Stream_read_uvarint(s), LAMBDA l :
        IF l.exc # NoError THEN [l EXCEPT !.v = <<>>]
        ELSE With(Stream_read(l.s, l.v), LAMBDA r :
                 [r EXCEPT !.v = Utf8DecodeReplace(@)]))

\* self.fields[table].insert(0, s): the string put in front of the others
AppendField_in_front(fields, table, s) ==
    IF table \in DOMAIN fields THEN [fields EXCEPT ![table] = <<s>> \o @]
    ELSE fields @@ (table :> <<s>>)

\* self.fields[table].append(s), creating the list at the first string
AppendField(fields, table, s) ==
    IF table \in DOMAIN fields THEN [fields EXCEPT ![table] = Append(@, s)]
    ELSE fields @@ (table :> <<s>>)

\* _decode_host, _decode_source, _decode_source_type, _decode_string
decode_symbol(d, table) ==
    With(read_string_field(d.reader), LAMBDA r :
        IF r.exc # NoError THEN Fail([d EXCEPT !.reader = r.s], r.exc)
        ELSE Ok([d EXCEPT !.reader = r.s, !.fields = AppendField(@, table, r.v)]))

decode_host(d) == decode_symbol(d, NEW_HOST)

decode_source(d) == decode_symbol(d, NEW_SOURCE)

decode_source_type(d) == decode_symbol(d, NEW_SOURCE_TYPE)

decode_string(d) == decode_symbol(d, NEW_STRING)

\* one `if self.opcode & bit: self.<name> = await self.reader.read_uvarint()`
NewStateField(r, bit, name) ==
    IF r.exc # NoError \/ ~BitSet(r.d.opcode, bit) THEN r
    ELSE With(Stream_read_uvarint(r.d.reader), LAMBDA v :
             IF v.exc # NoError THEN Fail([r.d EXCEPT !.reader = v.s], v.exc)
             ELSE Ok([r.d EXCEPT !.reader = v.s, ![name] = v.v]))

\* the handler reading the source type before the source
decode_new_state_type_first(d) ==
    With(NewStateField(NewStateField(NewStateField(Ok(d), 8, "active_host"),
                                     2, "active_source_type"),
                       4, "active_source"), LAMBDA r3 :
        IF r3.exc # NoError \/ ~BitSet(r3.d.opcode, 1) THEN r3
        ELSE With(Stream_read(r3.d.reader, 4), LAMBDA b :
                 IF b.exc # NoError THEN Fail([r3.d EXCEPT !.reader = b.s], b.exc)
                 ELSE Ok([r3.d EXCEPT !.reader = b.s,
                                      !.base_event_time = UnpackI32(b.v)])))

decode_new_state(d) ==
    With(NewStateField(NewStateField(NewStateField(Ok(d), 8, "active_host"),
                                     4, "active_source"),
                       2, "active_source_type"), LAMBDA r3 :
        IF r3.exc # NoError \/ ~BitSet(r3.d.opcode, 1) THEN r3
        ELSE With(Stream_read(r3.d.reader, 4), LAMBDA b :
                 IF b.exc # NoError THEN Fail([r3.d EXCEPT !.reader = b.s], b.exc)
                 ELSE Ok([r3.d EXCEPT !.reader = b.s,
                                      !.base_event_time = UnpackI32(b.v)])))

(***************************************************************************)
(* Metadata (async_decoder.py).                                            *)
(***************************************************************************)
\* ("exc", str(e)) of decode_field, e = IndexError("list index out of range")
Str_exc == <<101, 120, 99>>

Str_list_index_out_of_range ==
    <<108, 105, 115, 116, 32, 105, 110, 100, 101, 120, 32,
      111, 117, 116, 32, 111, 102, 32, 114, 97, 110, 103, 101>>

\* list[i] with Python indexing: [ok, v]
PyIndex(list, i) ==
    IF i >= 0 /\ i < Len(list) THEN [ok |-> TRUE, v |-> list[i + 1]]
    ELSE IF i < 0 /\ i >= -Len(list) THEN [ok |-> TRUE, v |-> list[i + Len(list) + 1]]
    ELSE [ok |-> FALSE, v |-> <<>>]

\* [field, value, exc]; the lookup of self.fields[Opcode.NEW_STRING] is outside
\* the try block
decode_field(fields, key, value) ==
    IF NEW_STRING \notin DOMAIN fields
    THEN [field |-> <<>>, value |-> <<>>, exc |-> Raise("KeyError", "NEW_STRING")]
    ELSE With(PyIndex(fields[NEW_STRING], key - 1), LAMBDA k :
         With(PyIndex(fields[NEW_STRING], value - 1), LAMBDA v :
             IF k.ok /\ v.ok THEN [field |-> k.v, value |-> v.v, exc |-> NoError]
             ELSE [field |-> Str_exc, value |-> Str_list_index_out_of_range,
                   exc |-> NoError]))

\* the loop over the extra integers of _read_metadata; rest is bound only on
\* the branch of the newer opcodes
RECURSIVE read_metadata_extras(_, _, _, _, _, _)
read_metadata_extras(peek, at, todo, restBound, rest, ret) ==
    IF todo <= 0 THEN [n |-> at, ret |-> ret, exc |-> NoError]
    ELSE With(decode_uvarint_from_bytes(peek, at), LAMBDA r :
             IF r.exc # NoError THEN [n |-> at, ret |-> ret, exc |-> r.exc]
             ELSE IF ~restBound
                  THEN [n |-> at, ret |-> ret, exc |-> Raise("UnboundLocalError", "rest")]
             ELSE IF r.n = -1
                  THEN [n |-> at, ret |-> Append(ret, <<rest, r.value>>),
                        exc |-> Raise("ValueError", "Cannot read varint for metadata value")]
             ELSE read_metadata_extras(peek, at + r.n, todo - 1, restBound, rest,
                                       Append(ret, <<rest, r.value>>)))

\* [n, ret, exc]: bytes consumed and the (field_index, value_index) pairs
read_metadata(opcode, peek, offset) ==
    With(decode_uvarint_from_bytes(peek, offset), LAMBDA k :
        IF k.exc # NoError THEN [n |-> 0, ret |-> <<>>, exc |-> k.exc]
        ELSE IF k.n = -1
             THEN [n |-> 0, ret |-> <<>>,
                   exc |-> Raise("ValueError", "Cannot read varint for metadata key")]
        ELSE IF opcode <= 2
             THEN [read_metadata_extras(peek, offset + k.n, 1, FALSE, 0, <<>>)
                       EXCEPT !.n = @ - offset]
        ELSE LET meta_key == IF opcode < 36 THEN k.value * 4 ELSE k.value
                 rmki_key == meta_key % 16
                 rest == meta_key \div 16
                 num_to_read == IF rmki_key \in DOMAIN RMKI_TYPES
                                THEN RMKI_TYPES[rmki_key] ELSE 0
             IN  [read_metadata_extras(peek, offset + k.n, num_to_read, TRUE,
                                       rest, <<>>)
                      EXCEPT !.n = @ - offset])

\* decode_metadata with a repeated field keeping only its last value
MetaInsert_overwrite(mf, field, value) ==
    IF field \notin DOMAIN mf THEN mf @@ (field :> [list |-> FALSE, v |-> <<value>>])
    ELSE [mf EXCEPT ![field] = [list |-> FALSE, v |-> <<value>>]]

\* a value of metadata_fields is a str or a list of str: [list, v]
MetaInsert(mf, field, value) ==
    IF field \notin DOMAIN mf THEN mf @@ (field :> [list |-> FALSE, v |-> <<value>>])
    ELSE [mf EXCEPT ![field] = [list |-> TRUE, v |-> Append(@.v, value)]]

\* the inner loop of decode_metadata over the pairs of one entry: [mf, exc]
RECURSIVE InsertPairs(_, _, _)
InsertPairs(fields, mf, pairs) ==
    IF pairs = <<>> THEN [mf |-> mf, exc |-> NoError]
    ELSE With(decode_field(fields, Head(pairs)[1], Head(pairs)[2]), LAMBDA f :
             IF f.exc # NoError THEN [mf |-> mf, exc |-> f.exc]
             ELSE InsertPairs(fields, MetaInsert(mf, f.field, f.value), Tail(pairs)))

\* the outer loop of decode_metadata: [mf, n, exc]
RECURSIVE decode_metadata_loop(_, _, _, _, _, _)
decode_metadata_loop(fields, opcode, buffer, todo, metadata_offset, mf) ==
    IF todo <= 0 THEN [mf |-> mf, n |-> metadata_offset, exc |-> NoError]
    ELSE With(read_metadata(opcode, buffer, metadata_offset), LAMBDA m :
             IF m.exc # NoError
             THEN [mf |-> mf, n |-> metadata_offset, exc |-> m.exc]
             ELSE With(InsertPairs(fields, mf, m.ret), LAMBDA i :
                      IF i.exc # NoError
                      THEN [mf |-> i.mf, n |-> metadata_offset + m.n, exc |-> i.exc]
                      ELSE decode_metadata_loop(fields, opcode, buffer, todo - 1,
                                                metadata_offset + m.n, i.mf)))

\* [d, n, exc]
decode_metadata(d, buffer) ==
    With(decode_metadata_loop(d.fields, d.opcode, buffer,
                              d.event.metadata_count, 0, EmptyDict), LAMBDA r :
        [d |-> [d EXCEPT !.event = SetAttr(@, "metadata_fields", r.mf)],
         n |-> r.n, exc |-> r.exc])

(***************************************************************************)
(* _decode_event (async_decoder.py).  The handler is a chain of steps over *)
(* a context c = [d, peek, offset, exc]; a step does nothing once an       *)
(* exception is raised, and the event keeps what was assigned before it.   *)
(***************************************************************************)
\* a peek with no room for the hash
EVENT_INFO_SIZE_no_hash == 8 * 10 + 8

EVENT_INFO_SIZE == 8 * 10 + 8 + HASH_SIZE

\* self.event.<name>, n = decode_..._from_bytes(peek, offset); offset += n
\* (the value and the length are used whatever n is)
PeekVarint(c, name, declared, shifted) ==
    IF c.exc # NoError THEN c
    ELSE With(IF shifted THEN decode_shifted_varint_from_bytes(c.peek, c.offset)
              ELSE decode_uvarint_from_bytes(c.peek, c.offset), LAMBDA r :
             IF r.exc # NoError THEN [c EXCEPT !.exc = r.exc]
             ELSE [c EXCEPT !.d.event = IF declared THEN [@ EXCEPT ![name] = r.value]
                                        ELSE SetAttr(@, name, r.value),
                            !.offset = @ + r.n])

EventMessageLength(c) ==
    With(PeekVarint(c, "message_length", TRUE, FALSE), LAMBDA c1 :
        IF c1.exc # NoError THEN c1
        ELSE [c1 EXCEPT !.d.event.message_length = @ + c1.d.reader.pos + c1.offset])

EventExtendedStorage(c) ==
    IF c.exc # NoError \/ ~BitSet(c.d.opcode, 4) THEN c
    ELSE PeekVarint([c EXCEPT !.d.event.has_extended_storage = TRUE],
                    "extended_storage_len", TRUE, FALSE)

\* the hash read whatever bit 0 of the opcode is
EventHash_always(c) ==
    IF c.exc # NoError THEN c
    ELSE [c EXCEPT !.d.event.has_hash = TRUE,
                   !.d.event.hash = PySlice(c.peek, c.offset, c.offset + HASH_SIZE),
                   !.offset = @ + HASH_SIZE]

EventHash(c) ==
    IF c.exc # NoError \/ BitSet(c.d.opcode, 1) THEN c
    ELSE [c EXCEPT !.d.event.has_hash = TRUE,
                   !.d.event.hash = PySlice(c.peek, c.offset, c.offset + HASH_SIZE),
                   !.offset = @ + HASH_SIZE]

EventStreamId(c) ==
    IF c.exc # NoError THEN c
    ELSE With(UnpackU64(PySlice(c.peek, c.offset, c.offset + 8)), LAMBDA u :
             IF u.exc # NoError THEN [c EXCEPT !.exc = u.exc]
             ELSE [c EXCEPT !.d.event.stream_id = u.v, !.offset = @ + 8])

\* index_time without the base of the HEADER
EventIndexTime_no_base(c) ==
    With(PeekVarint(c, "index_time_diff", FALSE, FALSE), LAMBDA c1 :
        IF c1.exc # NoError THEN c1
        ELSE [c1 EXCEPT !.d.event.index_time = c1.d.event.index_time_diff])

EventIndexTime(c) ==
    With(PeekVarint(c, "index_time_diff", FALSE, FALSE), LAMBDA c1 :
        IF c1.exc # NoError THEN c1
        ELSE [c1 EXCEPT !.d.event.index_time =
                            c1.d.base_index_time + c1.d.event.index_time_diff])

EventSubSeconds(c) ==
    With(PeekVarint(c, "time_sub_seconds", FALSE, TRUE), LAMBDA c1 :
        IF c1.exc # NoError THEN c1
        ELSE [c1 EXCEPT !.d.event =
                 SetAttr(@, "event_time",
                         c1.d.base_event_time * 1000 + c1.d.event.time_sub_seconds)])

\* await self.reader.skip(offset)
EventSkipPeeked(c) ==
    IF c.exc # NoError THEN c
    ELSE With(Stream_skip(c.d.reader, c.offset), LAMBDA k :
             [c EXCEPT !.d.reader = k.s, !.exc = k.exc])

EventMetadata(c) ==
    IF c.exc # NoError \/ c.d.event.metadata_count <= 0 THEN c
    ELSE With(Stream_peek(c.d.reader, 4 * 10 * c.d.event.metadata_count), LAMBDA pk :
         IF pk.exc # NoError THEN [c EXCEPT !.d.reader = pk.s, !.exc = pk.exc]
         ELSE
         With(decode_metadata([c.d EXCEPT !.reader = pk.s], pk.v), LAMBDA m :
             IF m.exc # NoError THEN [c EXCEPT !.d = m.d, !.exc = m.exc]
             ELSE With(Stream_skip(m.d.reader, m.n), LAMBDA k :
                      [c EXCEPT !.d = [m.d EXCEPT !.reader = k.s], !.exc = k.exc])))

EventExtendedStorageBody(c) ==
    IF c.exc # NoError \/ ~c.d.event.has_extended_storage THEN c
    ELSE With(Stream_read(c.d.reader, c.d.event.extended_storage_len), LAMBDA r :
             [c EXCEPT !.d.reader = r.s, !.exc = r.exc])

EventMessage(c) ==
    IF c.exc # NoError THEN c
    ELSE With(c.d.event.message_length - c.d.reader.pos, LAMBDA len :
         With(Stream_read(c.d.reader, len), LAMBDA r :
             IF r.exc # NoError
             THEN [c EXCEPT !.d.event.message_length = len,
                            !.d.reader = r.s, !.exc = r.exc]
             ELSE [c EXCEPT !.d.event.message_length = len,
                            !.d.event.message = r.v, !.d.reader = r.s]))

\* include_punctuation, then source, sourcetype, host in that order
EventResolve(c) ==
    IF c.exc # NoError THEN c
    ELSE With([c.d.event EXCEPT !.include_punctuation =
                   BitSet(c.d.opcode, 2) /\ BitSet(c.d.opcode, 32)], LAMBDA e0 :
         With(source(c.d), LAMBDA so :
         With(source_type(c.d), LAMBDA st :
         With(host(c.d), LAMBDA ho :
             IF so.exc # NoError THEN [c EXCEPT !.d.event = e0, !.exc = so.exc]
             ELSE IF st.exc # NoError
                  THEN [c EXCEPT !.d.event = SetAttr(e0, "source", so.v),
                                 !.exc = st.exc]
             ELSE IF ho.exc # NoError
                  THEN [c EXCEPT !.d.event =
                            SetAttr(SetAttr(e0, "source", so.v), "sourcetype", st.v),
                                 !.exc = ho.exc]
             ELSE [c EXCEPT !.d.event =
                       SetAttr(SetAttr(SetAttr(e0, "source", so.v),
                                       "sourcetype", st.v), "host", ho.v)]))))

decode_event(d) ==
    With(Stream_peek(d.reader, EVENT_INFO_SIZE), LAMBDA pk :
        LET c0 == [d |-> [d EXCEPT !.reader = pk.s], peek |-> pk.v, offset |-> 0,
                   exc |-> pk.exc]
            c1 == EventStreamId(EventHash(EventExtendedStorage(EventMessageLength(c0))))
            c2 == PeekVarint(PeekVarint(c1, "stream_offset", TRUE, FALSE),
                             "stream_sub_offset", TRUE, FALSE)
            c3 == PeekVarint(EventSubSeconds(EventIndexTime(c2)),
                             "metadata_count", TRUE, FALSE)
            c4 == EventExtendedStorageBody(EventMetadata(EventSkipPeeked(c3)))
        IN  With(EventResolve(EventMessage(c4)), LAMBDA c5 :
                [d |-> c5.d, exc |-> c5.exc]))

\* _decode_next with the final else branch doing nothing
decode_next_ignores_unknown(d) ==
    IF d.opcode = HEADER THEN decode_header(d)
    ELSE IF d.opcode = SPLUNK_PRIVATE THEN decode_splunk_private(d)
    ELSE IF d.opcode = NEW_HOST THEN decode_host(d)
    ELSE IF d.opcode = NEW_SOURCE THEN decode_source(d)
    ELSE IF d.opcode = NEW_SOURCE_TYPE THEN decode_source_type(d)
    ELSE IF d.opcode = NEW_STRING THEN decode_string(d)
    ELSE IF 17 <= d.opcode /\ d.opcode <= 31 THEN decode_new_state(d)
    ELSE IF is_event_opcode(d.opcode) THEN decode_event(d)
    ELSE Ok(d)

\* _decode_next: the dispatch on self.opcode
decode_next(d) ==
    IF d.opcode = HEADER THEN decode_header(d)
    ELSE IF d.opcode = SPLUNK_PRIVATE THEN decode_splunk_private(d)
    ELSE IF d.opcode = NEW_HOST THEN decode_host(d)
    ELSE IF d.opcode = NEW_SOURCE THEN decode_source(d)
    ELSE IF d.opcode = NEW_SOURCE_TYPE THEN decode_source_type(d)
    ELSE IF d.opcode = NEW_STRING THEN decode_string(d)
    ELSE IF d.opcode = NOP THEN Ok(d)
    ELSE IF 17 <= d.opcode /\ d.opcode <= 31 THEN decode_new_state(d)
    ELSE IF is_event_opcode(d.opcode) THEN decode_event(d)
    ELSE Fail(d, [kind |-> "ValueError", what |-> "Unknown opcode", arg |-> d.opcode])

\* scan() with the end of stream caught by `except Exception`
scan_on_eof_as_error(d, s) == [d EXCEPT !.reader = s, !.error = EOFError]

\* the `except EOFError` of scan(): s is the stream the failed read left
scan_on_eof(d, s) == [d EXCEPT !.reader = s, !.error = NoError]

\* one iteration of the loop of scan(): [d, ret] with ret "true", "false",
\* or "loop" when the loop goes round again
\* scan() resetting the event before every record
scan_iteration_resets(d) ==
    With(Stream_read_byte(d.reader), LAMBDA b :
        IF b.exc # NoError
        THEN [d |-> scan_on_eof(d, b.s), ret |-> "false"]
        ELSE With([d EXCEPT !.reader = b.s, !.opcode = b.v], LAMBDA d1 :
             With(decode_next([d1 EXCEPT !.event = Event_reset(@)]), LAMBDA r :
                 IF r.exc # NoError
                 THEN [d |-> [r.d EXCEPT !.error = r.exc], ret |-> "false"]
                 ELSE IF is_event_opcode(r.d.opcode) THEN [d |-> r.d, ret |-> "true"]
                 ELSE [d |-> r.d, ret |-> "loop"])))

scan_iteration(d) ==
    With(Stream_read_byte(d.reader), LAMBDA b :
        IF b.exc = Suspended
        THEN [d |-> [d EXCEPT !.reader = b.s], ret |-> "suspended"]
        ELSE IF b.exc # NoError
        THEN [d |-> scan_on_eof(d, b.s), ret |-> "false"]
        ELSE With([d EXCEPT !.reader = b.s, !.opcode = b.v], LAMBDA d1 :
             With(decode_next(IF is_event_opcode(d1.opcode)
                              THEN [d1 EXCEPT !.event = Event_reset(@)] ELSE d1),
                  LAMBDA r :
                 IF r.exc = Suspended
                 THEN [d |-> r.d, ret |-> "suspended"]
                 ELSE IF r.exc # NoError
                 THEN [d |-> [r.d EXCEPT !.error = r.exc], ret |-> "false"]
                 ELSE IF is_event_opcode(r.d.opcode) THEN [d |-> r.d, ret |-> "true"]
                 ELSE [d |-> r.d, ret |-> "loop"])))

(***************************************************************************)
(* JournalDecoder and CountedReader (decoder.py), the synchronous decoder. *)
(* Its reader r = [data, fp, pos] is a CountedReader over                  *)
(* io.BufferedReader(io.BytesIO(data)): data the bytes of the file, fp the *)
(* position of the buffered reader, pos the bytes counted as consumed.     *)
(***************************************************************************)
Counted_new(data) == [data |-> data, fp |-> 0, pos |-> 0]

\* self.reader.read(n) of the buffered reader: at most n bytes, all of the
\* rest for n = -1, ValueError below -1.  [r, v, exc]
Buffered_read(r, n) ==
    IF n < -1
    THEN [r |-> r, v |-> <<>>,
          exc |-> Raise("ValueError", "read length must be non-negative or -1")]
    ELSE With(IF n = -1 THEN Len(r.data) - r.fp ELSE Min(n, Len(r.data) - r.fp),
              LAMBDA k :
             [r |-> [r EXCEPT !.fp = @ + k],
              v |-> SubSeq(r.data, r.fp + 1, r.fp + k), exc |-> NoError])

Counted_read_byte(r) ==
    With(Buffered_read(r, 1), LAMBDA b :
        IF b.v = <<>> THEN [r |-> b.r, v |-> 0, exc |-> EOFError]
        ELSE [r |-> [b.r EXCEPT !.pos = @ + 1], v |-> b.v[1], exc |-> NoError])

Counted_read(r, n) ==
    With(Buffered_read(r, n), LAMBDA b :
        IF b.exc # NoError THEN b
        ELSE IF Len(b.v) < n THEN [r |-> b.r, v |-> <<>>, exc |-> EOFError]
        ELSE [b EXCEPT !.r.pos = @ + Len(b.v)])

\* tell, read, seek back
Counted_peek(r, n) == [Buffered_read(r, n) EXCEPT !.r = r]

\* never raises on a short read
Counted_discard(r, n) ==
    With(Buffered_read(r, n), LAMBDA b :
        IF b.exc # NoError THEN [b EXCEPT !.v = 0]
        ELSE [r |-> [b.r EXCEPT !.pos = @ + Len(b.v)], v |-> Len(b.v),
              exc |-> NoError])

\* read_uvarint(reader) of decoder.py
RECURSIVE read_uvarint_loop(_, _, _)
read_uvarint_loop(r, result, weight) ==
    With(Counted_read_byte(r), LAMBDA b :
        IF b.exc # NoError THEN b
        ELSE IF b.v < 128 THEN [b EXCEPT !.v = result + b.v * weight]
        ELSE read_uvarint_loop(b.r, result + (b.v % 128) * weight, weight * 128))

read_uvarint(r) == read_uvarint_loop(r, 0, 1)

\* JournalDecoder(name), the file holding data
Journal_new(data) ==
    [reader |-> Counted_new(data), opcode |-> 0, event |-> Event_new,
     error |-> NoError, fields |-> EmptyDict, base_time |-> 0,
     active_host |-> 0, active_source |-> 0, active_source_type |-> 0]

\* base_index_time is unpacked into a local variable and dropped
Journal_decode_header(d) ==
    With(Counted_read(d.reader, 6), LAMBDA r :
        [d |-> [d EXCEPT !.reader = r.r], exc |-> r.exc])

Journal_decode_splunk_private(d) ==
    With(read_uvarint(d.reader), LAMBDA l :
        IF l.exc # NoError THEN Fail([d EXCEPT !.reader = l.r], l.exc)
        ELSE With(Counted_discard(l.r, l.v), LAMBDA k :
                 [d |-> [d EXCEPT !.reader = k.r], exc |-> k.exc]))

Journal_read_string_field(r) ==
    With(read_uvarint(r), LAMBDA l :
        IF l.exc # NoError THEN [l EXCEPT !.v = <<>>]
        ELSE With(Counted_read(l.r, l.v), LAMBDA b :
                 [b EXCEPT !.v = Utf8DecodeReplace(@)]))

\* _decode_host, _decode_source, _decode_source_type, _decode_string
Journal_decode_symbol(d, table) ==
    With(Journal_read_string_field(d.reader), LAMBDA r :
        IF r.exc # NoError THEN Fail([d EXCEPT !.reader = r.r], r.exc)
        ELSE Ok([d EXCEPT !.reader = r.r, !.fields = AppendField(@, table, r.v)]))

Journal_new_state_field(r, bit, name) ==
    IF r.exc # NoError \/ ~BitSet(r.d.opcode, bit) THEN r
    ELSE With(read_uvarint(r.d.reader), LAMBDA v :
             IF v.exc # NoError THEN Fail([r.d EXCEPT !.reader = v.r], v.exc)
             ELSE Ok([r.d EXCEPT !.reader = v.r, ![name] = v.v]))

Journal_decode_new_state(d) ==
    With(Journal_new_state_field(
             Journal_new_state_field(
                 Journal_new_state_field(Ok(d), 8, "active_host"),
                 4, "active_source"),
             2, "active_source_type"), LAMBDA r3 :
        IF r3.exc # NoError \/ ~BitSet(r3.d.opcode, 1) THEN r3
        ELSE With(Counted_read(r3.d.reader, 4), LAMBDA b :
                 IF b.exc # NoError THEN Fail([r3.d EXCEPT !.reader = b.r], b.exc)
                 ELSE Ok([r3.d EXCEPT !.reader = b.r, !.base_time = UnpackI32(b.v)])))

\* the loop over the extra integers of JournalDecoder._read_metadata: [n, exc]
RECURSIVE Journal_read_metadata_extras(_, _, _)
Journal_read_metadata_extras(peek, at, todo) ==
    IF todo <= 0 THEN [n |-> at, exc |-> NoError]
    ELSE With(decode_varint_from_bytes(peek, at), LAMBDA r :
             IF r.exc # NoError THEN [n |-> at, exc |-> r.exc]
             ELSE IF r.n = -1
                  THEN [n |-> at,
                        exc |-> Raise("ValueError", "Cannot read varint for metadata value")]
             ELSE Journal_read_metadata_extras(peek, at + r.n, todo - 1))

\* [n, exc]: the bytes one metadata entry takes
Journal_read_metadata(opcode, peek, offset) ==
    With(decode_uvarint_from_bytes(peek, offset), LAMBDA k :
        IF k.exc # NoError THEN [n |-> 0, exc |-> k.exc]
        ELSE IF k.n = -1
             THEN [n |-> 0,
                   exc |-> Raise("ValueError", "Cannot read varint for metadata key")]
        ELSE LET meta_key == IF opcode <= 2 THEN k.value * 8
                             ELSE IF opcode < 36 THEN k.value * 4 ELSE k.value
                 num_to_read == IF opcode <= 2 THEN 1
                                ELSE IF (meta_key % 16) \in DOMAIN RMKI_TYPES
                                     THEN RMKI_TYPES[meta_key % 16] ELSE 0
             IN  [Journal_read_metadata_extras(peek, offset + k.n, num_to_read)
                      EXCEPT !.n = @ - offset])

\* the loop of _decode_event over the metadata entries: [n, exc]
RECURSIVE Journal_metadata_loop(_, _, _, _)
Journal_metadata_loop(opcode, peek, todo, metadata_offset) ==
    IF todo <= 0 THEN [n |-> metadata_offset, exc |-> NoError]
    ELSE With(Journal_read_metadata(opcode, peek, metadata_offset), LAMBDA m :
             IF m.exc # NoError THEN [n |-> metadata_offset, exc |-> m.exc]
             ELSE Journal_metadata_loop(opcode, peek, todo - 1, metadata_offset + m.n))

\* index_time is the zigzag varint plus base_time
Journal_event_index_time(c) ==
    IF c.exc # NoError THEN c
    ELSE With(decode_varint_from_bytes(c.peek, c.offset), LAMBDA r :
             IF r.exc # NoError THEN [c EXCEPT !.exc = r.exc]
             ELSE [c EXCEPT !.d.event.index_time = r.value + c.d.base_time,
                            !.offset = @ + r.n])

\* self.reader.discard(offset)
Journal_event_discard_peeked(c) ==
    IF c.exc # NoError THEN c
    ELSE With(Counted_discard(c.d.reader, c.offset), LAMBDA k :
             [c EXCEPT !.d.reader = k.r, !.exc = k.exc])

Journal_event_metadata(c) ==
    IF c.exc # NoError \/ c.d.event.metadata_count <= 0 THEN c
    ELSE With(Counted_peek(c.d.reader, 4 * 10 * c.d.event.metadata_count), LAMBDA pk :
         With(Journal_metadata_loop(c.d.opcode, pk.v, c.d.event.metadata_count, 0),
              LAMBDA m :
             IF m.exc # NoError THEN [c EXCEPT !.exc = m.exc]
             ELSE With(Counted_discard(c.d.reader, m.n), LAMBDA k :
                      [c EXCEPT !.d.reader = k.r, !.exc = k.exc])))

Journal_event_extended_storage_body(c) ==
    IF c.exc # NoError \/ ~c.d.event.has_extended_storage THEN c
    ELSE With(Counted_read(c.d.reader, c.d.event.extended_storage_len), LAMBDA r :
             [c EXCEPT !.d.reader = r.r, !.exc = r.exc])

Journal_event_message(c) ==
    IF c.exc # NoError THEN c
    ELSE With(c.d.event.message_length - c.d.reader.pos, LAMBDA len :
         With(Counted_read(c.d.reader, len), LAMBDA r :
             IF r.exc # NoError
             THEN [c EXCEPT !.d.event.message_length = len,
                            !.d.reader = r.r, !.exc = r.exc]
             ELSE [c EXCEPT !.d.event.message_length = len,
                            !.d.event.message = r.v, !.d.reader = r.r,
                            !.d.event.include_punctuation =
                                BitSet(c.d.opcode, 2) /\ BitSet(c.d.opcode, 32)]))

\* JournalDecoder._decode_event: the fields up to the stream id are read as
\* in the async decoder
Journal_decode_event(d) ==
    LET c0 == [d |-> d, peek |-> Counted_peek(d.reader, EVENT_INFO_SIZE).v,
               offset |-> 0, exc |-> NoError]
        c1 == EventStreamId(EventHash(EventExtendedStorage(EventMessageLength(c0))))
        c2 == PeekVarint(PeekVarint(c1, "stream_offset", TRUE, FALSE),
                         "stream_sub_offset", TRUE, FALSE)
        c3 == PeekVarint(PeekVarint(Journal_event_index_time(c2),
                                    "sub_seconds", TRUE, FALSE),
                         "metadata_count", TRUE, FALSE)
        c4 == Journal_event_extended_storage_body(
                  Journal_event_metadata(Journal_event_discard_peeked(c3)))
    IN  With(Journal_event_message(c4), LAMBDA c5 : [d |-> c5.d, exc |-> c5.exc])

Journal_decode_next(d) ==
    IF d.opcode = HEADER THEN Journal_decode_header(d)
    ELSE IF d.opcode = SPLUNK_PRIVATE THEN Journal_decode_splunk_private(d)
    ELSE IF d.opcode \in {NEW_HOST, NEW_SOURCE, NEW_SOURCE_TYPE, NEW_STRING}
         THEN Journal_decode_symbol(d, d.opcode)
    ELSE IF d.opcode = NOP THEN Ok(d)
    ELSE IF 17 <= d.opcode /\ d.opcode <= 31 THEN Journal_decode_new_state(d)
    ELSE IF is_event_opcode(d.opcode) THEN Journal_decode_event(d)
    ELSE Fail(d, [kind |-> "ValueError", what |-> "Unknown opcode", arg |-> d.opcode])

\* JournalDecoder.scan(), a whole call: [d, ret] with ret "true" or "false"
RECURSIVE Journal_scan(_)
Journal_scan(d) ==
    With(Counted_read_byte(d.reader), LAMBDA b :
        IF b.exc # NoError
        THEN [d |-> [d EXCEPT !.reader = b.r, !.error = NoError], ret |-> "false"]
        ELSE With([d EXCEPT !.reader = b.r, !.opcode = b.v], LAMBDA d1 :
             With(Journal_decode_next(IF is_event_opcode(d1.opcode)
                                      THEN [d1 EXCEPT !.event = Event_reset(@)]
                                      ELSE d1), LAMBDA r :
                 IF r.exc # NoError
                 THEN [d |-> [r.d EXCEPT !.error = r.exc], ret |-> "false"]
                 ELSE IF is_event_opcode(r.d.opcode) THEN [d |-> r.d, ret |-> "true"]
                 ELSE Journal_scan(r.d))))

(***************************************************************************)
(* Journals.  A journal is a sequence of records written as the test       *)
(* builder writes them (_encode_uvarint, _build_minimal_journal); a record *)
(* carries its wire bytes and, for the properties, what it was built from. *)
(***************************************************************************)
RECURSIVE encode_uvarint(_)
encode_uvarint(value) ==
    IF value > 127 THEN <<(value % 128) + 128>> \o encode_uvarint(value \div 128)
    ELSE <<value>>

\* struct.pack("<i", v) for -2^31 <= v < 2^31: two's complement
PackI32(v) ==
    <<v % 256, (v \div 256) % 256, (v \div 65536) % 256, (v \div 16777216) % 256>>

RECURSIVE Flatten(_)
Flatten(ss) == IF ss = <<>> THEN <<>> ELSE Head(ss) \o Flatten(Tail(ss))

\* a record that is not an event
Rec(kind, op, body) ==
    [kind |-> kind, op |-> op, bytes |-> <<op>> \o body, wellformed |-> TRUE,
     message |-> <<>>, index_time_diff |-> 0, sub_seconds |-> 0,
     metadata |-> <<>>, value |-> 0,
     active_host |-> -1, active_source |-> -1, active_source_type |-> -1]

HeaderRec(base_index_time) ==
    [Rec("header", HEADER, <<1, 0>> \o PackI32(base_index_time))
        EXCEPT !.value = base_index_time]

SymbolRec(op, text) == Rec("symbol", op, encode_uvarint(Len(text)) \o text)

PrivateRec(payload) ==
    Rec("private", SPLUNK_PRIVATE, encode_uvarint(Len(payload)) \o payload)

\* a state update: the values follow the flags of the opcode, host first;
\* an index the record does not set is -1
StateRec(op, values, base_event_time) ==
    LET at_host == 1
        at_source == at_host + (IF BitSet(op, 8) THEN 1 ELSE 0)
        at_source_type == at_source + (IF BitSet(op, 4) THEN 1 ELSE 0)
    IN  [Rec("state", op,
             Flatten([i \in 1..Len(values) |-> encode_uvarint(values[i])])
             \o (IF BitSet(op, 1) THEN PackI32(base_event_time) ELSE <<>>))
            EXCEPT !.value = IF BitSet(op, 1) THEN base_event_time ELSE -1,
                   !.active_host = IF BitSet(op, 8) THEN values[at_host] ELSE -1,
                   !.active_source = IF BitSet(op, 4) THEN values[at_source] ELSE -1,
                   !.active_source_type =
                       IF BitSet(op, 2) THEN values[at_source_type] ELSE -1]

UnknownRec(op) == [Rec("unknown", op, <<>>) EXCEPT !.wellformed = FALSE]

\* one metadata entry on the wire: the key and its extra integers
MetaEntry(key, extras) ==
    encode_uvarint(key)
    \o Flatten([i \in 1..Len(extras) |-> encode_uvarint(extras[i])])

\* an event: the fields after message_length in wire order, and
\* message_length = size of those fields + len(message), or the wire value
\* given in wire_len when it is not -1
EventRec(op, wire_len, storage, index_time_diff, sub_seconds, metadata, message) ==
    LET after == (IF BitSet(op, 4) THEN encode_uvarint(Len(storage)) ELSE <<>>)
                 \o (IF ~BitSet(op, 1) THEN [i \in 1..HASH_SIZE |-> 7] ELSE <<>>)
                 \o <<5, 0, 0, 0, 0, 0, 0, 0>>
                 \o encode_uvarint(0) \o encode_uvarint(0)
                 \o encode_uvarint(index_time_diff)
                 \o encode_uvarint(sub_seconds)
                 \o encode_uvarint(Len(metadata))
                 \o Flatten([i \in 1..Len(metadata) |->
                                MetaEntry(metadata[i][1], metadata[i][2])])
                 \o (IF BitSet(op, 4) THEN storage ELSE <<>>)
        m == IF wire_len = -1 THEN Len(after) + Len(message) ELSE wire_len
    IN  [kind |-> "event", op |-> op,
         bytes |-> <<op>> \o encode_uvarint(m) \o after \o message,
         wellformed |-> (wire_len = -1),
         message |-> message, index_time_diff |-> index_time_diff,
         sub_seconds |-> sub_seconds, metadata |-> metadata, value |-> m,
         active_host |-> -1, active_source |-> -1, active_source_type |-> -1]

\* the records journals are made of
Records ==
    { Rec("nop", NOP, <<>>),
      HeaderRec(1000),
      SymbolRec(NEW_HOST, <<104>>),
      SymbolRec(NEW_SOURCE_TYPE, <<116, 195, 169>>),
      SymbolRec(NEW_STRING, <<107>>),
      PrivateRec(<<7>>),
      StateRec(17, <<>>, 7),
      StateRec(26, <<1, 2>>, 0),
      UnknownRec(255),
      EventRec(OLDSTYLE_EVENT, -1, <<>>, 100, 3, <<>>, <<104, 105>>),
      EventRec(OLDSTYLE_EVENT, -1, <<>>, 0, 0, << <<2, <<1>> >> >>, <<97>>),
      EventRec(OLDSTYLE_EVENT, 0, <<>>, 1, 2, <<>>, <<>>),
      EventRec(33, -1, <<>>, 0, 0, << <<0, <<1>> >>, <<4, <<2>> >> >>, <<>>),
      EventRec(38, -1, <<9>>, 4, 5, <<>>, <<120, 255>>) }

\* the journals of at most MaxRecs records over an alphabet of records
JournalsOver(alphabet) == UNION { [1..n -> alphabet] : n \in 0..MaxRecs }

Wire(journal) == Flatten([i \in 1..Len(journal) |-> journal[i].bytes])

\* the bytes of the journal with the last cut bytes missing
WireCut(journal, cut) == SubSeq(Wire(journal), 1, Len(Wire(journal)) - cut)

\* AsyncJournalStream(reader): the decoder keeps the default chunk_size
DefaultChunk == 64 * 1024

(***************************************************************************)
(* The decoder as a state machine: one step is one iteration of the loop   *)
(* of scan(), from the read of the opcode byte to the end of its handler.  *)
(***************************************************************************)
VARIABLES
    reader, opcode, event, error, fields,
    base_event_time, base_index_time,
    active_host, active_source, active_source_type,
    journal,    \* the records the source was built from
    cut,        \* the bytes missing from the end of the last record
    scanning,   \* a call of scan() is inside its loop
    calls,      \* calls of scan() made
    result,     \* what the last finished call returned: "none", "true", "false"
    found,      \* calls that returned true
    last,       \* the last iteration: "none", "eof" (no opcode to read), "record"
    at,         \* tell() when the last iteration read its opcode
    sync,       \* a JournalDecoder over the same bytes: [d, calls, result]
    call,       \* the last direct call of a method: its name, arguments, result
    heap,       \* the objects decoder instances of one process are made of
    tasks       \* the coroutines that drive those instances

decoder_vars ==
    <<reader, opcode, event, error, fields, base_event_time, base_index_time,
      active_host, active_source, active_source_type>>

vars ==
    <<reader, opcode, event, error, fields, base_event_time, base_index_time,
      active_host, active_source, active_source_type,
      journal, cut, scanning, calls, result, found, last, at, sync, call,
      heap, tasks>>

\* the decoder object
Self ==
    [reader |-> reader, opcode |-> opcode, event |-> event, error |-> error,
     fields |-> fields, base_event_time |-> base_event_time,
     base_index_time |-> base_index_time, active_host |-> active_host,
     active_source |-> active_source, active_source_type |-> active_source_type]

Becomes(d) ==
    /\ reader' = d.reader
    /\ opcode' = d.opcode
    /\ event' = d.event
    /\ error' = d.error
    /\ fields' = d.fields
    /\ base_event_time' = d.base_event_time
    /\ base_index_time' = d.base_index_time
    /\ active_host' = d.active_host
    /\ active_source' = d.active_source
    /\ active_source_type' = d.active_source_type

\* AsyncJournalDecoder(reader): the attributes after __init__
Starts(d) ==
    /\ reader = d.reader
    /\ opcode = d.opcode
    /\ event = d.event
    /\ error = d.error
    /\ fields = d.fields
    /\ base_event_time = d.base_event_time
    /\ base_index_time = d.base_index_time
    /\ active_host = d.active_host
    /\ active_source = d.active_source
    /\ active_source_type = d.active_source_type

\* no method has been called directly
NoCall == [name |-> "none"]

\* a decoder over one of the journals, whole or with its last record cut
\* short
InitMain(journals) ==
    /\ journal \in journals
    /\ cut \in 0..MaxTrunc
    /\ cut > 0 => journal # <<>> /\ cut < Len(journal[Len(journal)].bytes)
    /\ Starts(Decoder_new(WireCut(journal, cut), DefaultChunk))
    /\ scanning = FALSE
    /\ calls = 0
    /\ result = "none"
    /\ found = 0
    /\ last = "none"
    /\ at = 0
    /\ sync = [d |-> Journal_new(WireCut(journal, cut)), calls |-> 0,
               result |-> "none"]
    /\ call = NoCall

\* that decoder alone in its process
InitIn(journals) == InitMain(journals) /\ heap = <<>> /\ tasks = <<>>

\* a decoder over a journal of the alphabet
InitOver(alphabet) == InitIn(JournalsOver(alphabet))

Init == InitOver(Records)

\* the byte the next iteration reads as its opcode, -1 at end of stream
NextOpcode ==
    With(Stream_read_byte(reader), LAMBDA b : IF b.exc # NoError THEN -1 ELSE b.v)

\* one iteration of scan(): the first of a new call when no call is running.
\* The caller is the loop `while decoder.scan():` of the extractor: it calls
\* again after true and stops at the first false.
ScanStep ==
    /\ scanning \/ result # "false"
    /\ \E r \in {scan_iteration(Self)} :
           /\ Becomes(r.d)
           /\ scanning' = (r.ret = "loop")
           /\ calls' = IF scanning THEN calls ELSE calls + 1
           /\ result' = IF r.ret = "loop" THEN result ELSE r.ret
           /\ found' = IF r.ret = "true" THEN found + 1 ELSE found
           /\ last' = IF NextOpcode = -1 THEN "eof" ELSE "record"
           /\ at' = Stream_tell(reader)
    /\ UNCHANGED <<journal, cut, sync, call, heap, tasks>>

ScanEof == NextOpcode = -1 /\ ScanStep

ScanNop == NextOpcode = NOP /\ ScanStep

ScanHeader == NextOpcode = HEADER /\ ScanStep

ScanSplunkPrivate == NextOpcode = SPLUNK_PRIVATE /\ ScanStep

ScanNewSymbol == NextOpcode \in {NEW_HOST, NEW_SOURCE, NEW_SOURCE_TYPE, NEW_STRING} /\ ScanStep

ScanNewState == NextOpcode \in 17..31 /\ ScanStep

ScanEvent == is_event_opcode(NextOpcode) /\ ScanStep

ScanUnknown ==
    /\ NextOpcode \notin {-1, NOP, HEADER, SPLUNK_PRIVATE, NEW_HOST, NEW_SOURCE,
                          NEW_SOURCE_TYPE, NEW_STRING} \cup (17..31)
    /\ ~is_event_opcode(NextOpcode)
    /\ ScanStep

Next ==
    \/ ScanEof
    \/ ScanNop
    \/ ScanHeader
    \/ ScanSplunkPrivate
    \/ ScanNewSymbol
    \/ ScanNewState
    \/ ScanEvent
    \/ ScanUnknown

Spec == Init /\ [][Next]_vars

(***************************************************************************)
(* The two decoders side by side: each is driven by the extractor's loop,  *)
(* and the synchronous one makes its k-th call of scan() once the async    *)
(* one has finished its k-th.                                              *)
(***************************************************************************)
SyncScan ==
    /\ ~scanning
    /\ sync.calls < calls
    /\ sync.result # "false"
    /\ \E r \in {Journal_scan(sync.d)} :
           sync' = [d |-> r.d, calls |-> sync.calls + 1, result |-> r.ret]
    /\ UNCHANGED <<decoder_vars, heap, tasks, journal, cut, scanning, calls, result, found,
                   last, at, call>>

\* the async decoder starts its next call once the other has caught up
AsyncScan ==
    /\ scanning \/ sync.calls = calls \/ sync.result = "false"
    /\ Next

NextBoth == AsyncScan \/ SyncScan

SpecBoth == Init /\ [][NextBoth]_vars

(***************************************************************************)
(* The journal seen from the decoder: where its records lie on the wire    *)
(* and what the wire format says they hold.                                *)
(***************************************************************************)
\* the offset of the opcode byte of record i, and of the byte after record i
Start(i) == Len(Wire(SubSeq(journal, 1, i - 1)))

End(i) == Start(i) + Len(journal[i].bytes)

\* the bytes the source delivers
Delivered == WireCut(journal, cut)

\* record i is whole on the wire
Whole(i) == i < Len(journal) \/ cut = 0

\* the indices of the event records, in wire order
EventRecords ==
    SelectSeq([i \in 1..Len(journal) |-> i], LAMBDA i : journal[i].kind = "event")

\* the last iteration read its opcode at the first byte of a record
Aligned == last = "record" /\ \E i \in 1..Len(journal) : Start(i) = at

\* that record
Current == CHOOSE i \in 1..Len(journal) : Start(i) = at

\* the last call of scan() returned true, returned false
Emitted == ~scanning /\ result = "true"

Stopped == ~scanning /\ result = "false"

\* the strings of a table, none when the table was never created
Table(op) == IF op \in DOMAIN fields THEN fields[op] ELSE <<>>

\* the records of a table declared before record i
Declared(i, op) ==
    Cardinality({k \in 1..(i - 1) : journal[k].kind = "symbol" /\ journal[k].op = op})

\* the value the last record before i of a kind gave to a field, or none
RECURSIVE LastValue(_, _, _, _)
LastValue(i, kind, name, none) ==
    IF i <= 1 THEN none
    ELSE IF journal[i - 1].kind = kind /\ journal[i - 1][name] >= 0
         THEN journal[i - 1][name]
    ELSE LastValue(i - 1, kind, name, none)

\* the field_index a metadata key of an event opcode stands for
FieldIndex(op, key) ==
    IF op <= 2 THEN (key * 8) \div 16
    ELSE IF op < 36 THEN (key * 4) \div 16
    ELSE key \div 16

\* the (field_index, value_index) pairs of the metadata table of a record
MetaPairs(rec) ==
    Flatten([i \in 1..Len(rec.metadata) |->
                [j \in 1..Len(rec.metadata[i][2]) |->
                    <<FieldIndex(rec.op, rec.metadata[i][1]), rec.metadata[i][2][j]>>]])

\* a pair refers to strings declared before record i
PairInRange(i, pair) ==
    /\ 1 <= pair[1] /\ pair[1] <= Declared(i, NEW_STRING)
    /\ 1 <= pair[2] /\ pair[2] <= Declared(i, NEW_STRING)

\* record i is well-formed where it stands: its length field is exact and
\* every index it uses refers to a string declared before it
ActiveInRange(i) ==
    /\ LastValue(i, "state", "active_host", 0) <= Declared(i, NEW_HOST)
    /\ LastValue(i, "state", "active_source", 0) <= Declared(i, NEW_SOURCE)
    /\ LastValue(i, "state", "active_source_type", 0) <= Declared(i, NEW_SOURCE_TYPE)

WellFormedAt(i) ==
    /\ journal[i].wellformed
    /\ journal[i].kind = "event" =>
         /\ \A k \in 1..Len(MetaPairs(journal[i])) :
                PairInRange(i, MetaPairs(journal[i])[k])
         /\ ActiveInRange(i)

\* a stream whose records are all whole, of known opcodes and exact lengths
CompleteRecords == cut = 0 /\ \A i \in 1..Len(journal) : journal[i].wellformed

\* a stream made only of complete, well-formed records
WellFormedStream == cut = 0 /\ \A i \in 1..Len(journal) : WellFormedAt(i)

(***************************************************************************)
(* Properties of the scan loop.                                            *)
(***************************************************************************)
\* C1: in a stream made only of complete, well-formed records, the k-th call
\* of scan() that returns true exposes the k-th event record in wire order
\* (its opcode, read at its first byte, its message, the stream left at its
\* end), the records before it having been consumed inside that call, and
\* the calls that return true are as many as the event records.
C1_KthTrueIsKthEvent ==
    WellFormedStream =>
        /\ Emitted =>
             /\ found <= Len(EventRecords)
             /\ at = Start(EventRecords[found])
             /\ opcode = journal[EventRecords[found]].op
             /\ event.message = journal[EventRecords[found]].message
             /\ reader.pos = End(EventRecords[found])
        /\ Stopped => found = Len(EventRecords) /\ error = NoError

\* C2: when the stream ends after the opcode byte of its last record and
\* before the last byte of that record, the call of scan() that read that
\* opcode returns false with err() set; it never returns true.
C2_CutRecordIsAnError ==
    (~scanning /\ cut > 0 /\ last = "record" /\ at = Start(Len(journal)))
        => result = "false" /\ error # NoError

\* C3: when the source is exhausted where an opcode is expected, scan()
\* returns false with err() none and nothing is left unread; a complete
\* stream of records that are not events (the empty stream, a HEADER alone)
\* ends that way.
C3_CleanEof ==
    /\ last = "eof" =>
         /\ Stopped
         /\ error = NoError
         /\ reader.pos = Len(Delivered)
         /\ reader.buffer = <<>>
    /\ (/\ ~scanning
        /\ calls > 0
        /\ cut = 0
        /\ \A i \in 1..Len(journal) :
              journal[i].kind \in {"nop", "header", "symbol", "private", "state"})
         => last = "eof" /\ Stopped /\ error = NoError

\* a stream holding only HEADER(1000), read to its end
C3_HeaderOnly ==
    /\ journal = <<HeaderRec(1000)>>
    /\ cut = 0
    /\ last = "eof"
    /\ result = "false"
    /\ error = NoError
    /\ reader.pos = 7
    /\ base_index_time = 1000

\* C4: after a scan() that returns true for the event record read at its
\* first byte, the stream position is P = M + (the position just after the
\* message_length varint), M being the message_length on the wire, whatever
\* M is.
C4_PositionIsP ==
    (Emitted /\ Aligned) =>
        reader.pos = Start(Current) + 1
                     + Len(encode_uvarint(journal[Current].value))
                     + journal[Current].value

\* C6: an emitted event has index_time = base_index_time + index_time_diff
\* and event_time = base_event_time * 1000 + time_sub_seconds, where
\* base_index_time is the value of the last HEADER (0 if none),
\* index_time_diff the unsigned varint of the record, base_event_time the
\* value of the last state update that set it and time_sub_seconds the raw
\* varint of the record shifted right by one bit.
C6_EventTimes ==
    Emitted =>
        /\ event.index_time = base_index_time + event.index_time_diff
        /\ event.event_time = base_event_time * 1000 + event.time_sub_seconds
        /\ (Aligned /\ Whole(Current)) =>
             /\ event.index_time =
                    LastValue(Current, "header", "value", 0)
                    + journal[Current].index_time_diff
             /\ event.event_time =
                    LastValue(Current, "state", "value", 0) * 1000
                    + journal[Current].sub_seconds \div 2

\* HEADER(1000), base_event_time 7, then an event with index_time_diff 100
\* and raw sub-seconds 3
C6_BothBasesSet ==
    /\ Emitted
    /\ Aligned
    /\ base_index_time = 1000
    /\ base_event_time = 7
    /\ event.index_time = 1100
    /\ event.event_time = 7001

\* the opcode bytes outside the accepted set
Unaccepted ==
    (0..255) \ ({NOP, OLDSTYLE_EVENT, OLDSTYLE_EVENT_WITH_HASH, NEW_HOST,
                 NEW_SOURCE, NEW_SOURCE_TYPE, NEW_STRING, SPLUNK_PRIVATE, HEADER}
                \cup (17..31) \cup (32..43))

UnknownOpcode(b) == [kind |-> "ValueError", what |-> "Unknown opcode", arg |-> b]

\* what an iteration that reads a byte outside the accepted set does
UnknownOpcodeStep ==
    NextOpcode \in Unaccepted =>
        /\ ~scanning'
        /\ result' = "false"
        /\ error' = UnknownOpcode(NextOpcode)
        /\ UNCHANGED <<fields, active_host, active_source, active_source_type,
                       base_event_time, base_index_time>>
        /\ \A b \in Unaccepted :
              /\ decode_next([Self EXCEPT !.opcode = b])
                     = Fail([Self EXCEPT !.opcode = b], UnknownOpcode(b))
              /\ Journal_decode_next([sync.d EXCEPT !.opcode = b])
                     = Fail([sync.d EXCEPT !.opcode = b], UnknownOpcode(b))

\* C7: an iteration that reads an opcode byte outside the accepted set ends
\* the call with false and the unknown-opcode error naming that byte, and
\* changes no symbol table, active index or base time; the dispatch of both
\* decoders raises that error for every byte outside the accepted set.
C7_UnknownOpcode == [][UnknownOpcodeStep]_vars

\* byte 0xFF read with a host declared and selected
C7_UnknownAfterState ==
    /\ Stopped
    /\ last = "record"
    /\ opcode = 255
    /\ error = UnknownOpcode(255)
    /\ Table(NEW_HOST) # <<>>
    /\ active_host = 1

\* event.metadata_fields, read as empty while the attribute does not exist
MetadataFields ==
    IF "metadata_fields" \in event.attrs THEN event.metadata_fields ELSE EmptyDict

\* C8: in a stream of complete records, an emitted event with
\* metadata_count = 0 has an empty metadata_fields mapping, first of the
\* stream or after an event that carried metadata.
C8_NoMetadataNoFields ==
    (CompleteRecords /\ Emitted /\ event.metadata_count = 0) =>
        MetadataFields = EmptyDict

\* C9: an event record of the newer opcodes, whole and with an exact length
\* and active indices in range, whose metadata pairs all refer outside
\* 1..len(STRINGS) is emitted, and its metadata_fields holds the sentinel
\* and no string of the table.
C9_OutOfRangeIsSentinel ==
    (/\ ~scanning
     /\ Aligned
     /\ journal[Current].kind = "event"
     /\ journal[Current].op > 2
     /\ Whole(Current)
     /\ journal[Current].wellformed
     /\ ActiveInRange(Current)
     /\ MetaPairs(journal[Current]) # <<>>
     /\ \A k \in 1..Len(MetaPairs(journal[Current])) :
           ~PairInRange(Current, MetaPairs(journal[Current])[k]))
        => /\ result = "true"
           /\ "metadata_fields" \in event.attrs
           /\ DOMAIN event.metadata_fields = {Str_exc}

\* C10: in an event emitted from a stream of complete records each active
\* index is 0 or at most the length of its table, and the event carries the
\* string it selects.
C10_ActiveIndicesInRange ==
    (CompleteRecords /\ Emitted) =>
        /\ active_host <= Len(Table(NEW_HOST))
        /\ active_source <= Len(Table(NEW_SOURCE))
        /\ active_source_type <= Len(Table(NEW_SOURCE_TYPE))
        /\ event.host = IF active_host = 0 THEN <<>>
                        ELSE Table(NEW_HOST)[active_host]
        /\ event.source = IF active_source = 0 THEN <<>>
                          ELSE Table(NEW_SOURCE)[active_source]
        /\ event.sourcetype = IF active_source_type = 0 THEN <<>>
                              ELSE Table(NEW_SOURCE_TYPE)[active_source_type]

\* both decoders have finished the same number of calls
InStep == ~scanning /\ calls > 0 /\ sync.calls = calls

\* C5: on the same stream of complete records the synchronous and the async
\* decoder return the same result from each call of scan() and, for each
\* emitted event, the same index_time, sub-second time, stream fields,
\* flags, message and host, source and sourcetype.
C5_SyncEqualsAsync ==
    (CompleteRecords /\ InStep) =>
        /\ sync.result = result
        /\ result = "true" =>
             /\ sync.d.event.index_time = event.index_time
             /\ sync.d.event.sub_seconds = event.time_sub_seconds
             /\ sync.d.event.stream_id = event.stream_id
             /\ sync.d.event.stream_offset = event.stream_offset
             /\ sync.d.event.stream_sub_offset = event.stream_sub_offset
             /\ sync.d.event.has_hash = event.has_hash
             /\ sync.d.event.hash = event.hash
             /\ sync.d.event.has_extended_storage = event.has_extended_storage
             /\ sync.d.event.include_punctuation = event.include_punctuation
             /\ sync.d.event.message = event.message
             /\ host(sync.d).v = event.host
             /\ source(sync.d).v = event.source
             /\ source_type(sync.d).v = event.sourcetype

(***************************************************************************)
(* Properties of the metadata tables.                                      *)
(***************************************************************************)
\* the strings a pair of indices stands for, once both are in range
PairField(pair) == Table(NEW_STRING)[pair[1]]

PairValue(pair) == Table(NEW_STRING)[pair[2]]

\* C11: a legacy event (opcode 0x01 or 0x02), whole, with an exact length
\* and every index in range, that carries metadata is emitted, and each of
\* its entries gives one pair (key << 3 >> 4, the one extra varint) that is
\* resolved into metadata_fields.
C11_LegacyMetadata ==
    (/\ ~scanning
     /\ Aligned
     /\ journal[Current].kind = "event"
     /\ journal[Current].op <= 2
     /\ journal[Current].metadata # <<>>
     /\ Whole(Current)
     /\ WellFormedAt(Current))
        => /\ result = "true"
           /\ "metadata_fields" \in event.attrs
           /\ \A k \in 1..Len(MetaPairs(journal[Current])) :
                 /\ PairField(MetaPairs(journal[Current])[k])
                        \in DOMAIN event.metadata_fields
                 /\ \E j \in 1..Len(event.metadata_fields[
                                    PairField(MetaPairs(journal[Current])[k])].v) :
                        event.metadata_fields[
                            PairField(MetaPairs(journal[Current])[k])].v[j]
                            = PairValue(MetaPairs(journal[Current])[k])

(***************************************************************************)
(* Direct calls of the metadata methods: _read_metadata on one entry and   *)
(* decode_metadata on a table of entries, each on a decoder of its own.    *)
(***************************************************************************)
\* largest metadata key on the wire
MaxKey == 47

\* longest metadata table, in entries
MaxEntries == 2

\* the extra integers that follow a key: one-byte and two-byte varints
ExtraValues == {0, 1, 200}

\* the NEW_STRING table of the decoder decode_metadata is called on
Strings == << <<97>>, <<98>>, <<99>> >>

\* no decoder and no journal takes part in a direct call
InitCalls == InitOver({})

\* self._read_metadata(peek, offset) with self.opcode = op: peek holds
\* offset bytes, the key and three extra integers
ReadMetadataCall ==
    /\ call = NoCall
    /\ \E op \in {1, 2, 32, 35, 36, 43}, key \in 0..MaxKey,
          extras \in [1..3 -> ExtraValues], offset \in 0..1 :
          \E peek \in {[i \in 1..offset |-> 255] \o MetaEntry(key, extras)} :
              call' = [name |-> "_read_metadata", opcode |-> op, key |-> key,
                       extras |-> extras, offset |-> offset, peek |-> peek,
                       result |-> read_metadata(op, peek, offset)]
    /\ UNCHANGED <<decoder_vars, heap, tasks, journal, cut, scanning, calls, result, found,
                   last, at, sync>>

\* the representation code that asks for k extra integers, for an opcode
\* whose keys are shifted (below 36) and for one whose keys are not
RepFor(op, k) == IF op < 36 THEN <<0, 4, 12>>[k] ELSE <<0, 3, 7>>[k]

\* the key on the wire of an entry: field index and representation code
WireKey(op, field, k) ==
    IF op < 36 THEN (field * 16 + RepFor(op, k)) \div 4
    ELSE field * 16 + RepFor(op, k)

\* an entry names a string of the table and one to three values
Entries ==
    UNION { [field : 1..2, values : [1..k -> 1..2]] : k \in 1..3 }

EntriesUpTo(n) == UNION { [1..m -> Entries] : m \in 1..n }

\* the bytes of a metadata table
EntriesBuffer(op, entries) ==
    Flatten([i \in 1..Len(entries) |->
                MetaEntry(WireKey(op, entries[i].field, Len(entries[i].values)),
                          entries[i].values)])

\* self.decode_metadata(buffer) on a decoder whose table holds Strings
DecodeMetadataCall ==
    /\ call = NoCall
    /\ \E op \in {33, 36}, entries \in EntriesUpTo(MaxEntries) :
          \E r \in {decode_metadata(
                        [Decoder_new(<<>>, DefaultChunk) EXCEPT
                            !.opcode = op,
                            !.fields = NEW_STRING :> Strings,
                            !.event.metadata_count = Len(entries)],
                        EntriesBuffer(op, entries))} :
              call' = [name |-> "decode_metadata", opcode |-> op,
                       entries |-> entries, event |-> r.d.event,
                       n |-> r.n, exc |-> r.exc]
    /\ UNCHANGED <<decoder_vars, heap, tasks, journal, cut, scanning, calls, result, found,
                   last, at, sync>>

NextMetadata == ReadMetadataCall \/ DecodeMetadataCall

SpecMetadata == InitCalls /\ [][NextMetadata]_vars

\* extra_ints_needed of a representation code, 0 for the undefined codes
ExtraIntsNeeded(rep) ==
    IF rep \in {0, 2, 8, 9, 10} THEN 1
    ELSE IF rep \in {3, 4, 6, 11, 14} THEN 2
    ELSE IF rep \in {7, 12} THEN 3
    ELSE 0

\* the key of the call after the shift of the opcodes below 36
CallMetaKey == IF call.opcode < 36 THEN call.key * 4 ELSE call.key

\* C12: for an opcode 0x20-0x2B, _read_metadata shifts the key left by 2 iff
\* the opcode is below 36, takes rep = key & 0xF and field_index = key >> 4,
\* consumes the key and exactly extra_ints_needed(rep) extra varints and
\* returns one pair (field_index, extra) for each, in read order.
C12_EntryPairs ==
    (call.name = "_read_metadata" /\ call.opcode >= 32) =>
        LET k == ExtraIntsNeeded(CallMetaKey % 16)
        IN  /\ call.result.exc = NoError
            /\ call.result.n = Len(MetaEntry(call.key, SubSeq(call.extras, 1, k)))
            /\ call.result.ret =
                   [i \in 1..k |-> <<CallMetaKey \div 16, call.extras[i]>>]

\* opcode 0x23 and key 7: shifted to 28, so rep 12 with three extras for
\* field 1, read after one byte of offset
C12_ShiftedKeyThreeExtras ==
    /\ call.name = "_read_metadata"
    /\ call.opcode = 35
    /\ call.key = 7
    /\ call.offset = 1
    /\ call.result.n = 5
    /\ call.result.ret = << <<1, 200>>, <<1, 0>>, <<1, 1>> >>

\* the (field, value) strings of the entries of the call, in decode order
CallPairs ==
    Flatten([i \in 1..Len(call.entries) |->
                [j \in 1..Len(call.entries[i].values) |->
                    <<Strings[call.entries[i].field],
                      Strings[call.entries[i].values[j]]>>]])

\* the values decoded for a field, in decode order
ValuesOf(f) ==
    LET of == SelectSeq(CallPairs, LAMBDA p : p[1] = f)
    IN  [k \in 1..Len(of) |-> of[k][2]]

\* C13: after decode_metadata, a field that occurs once among the resolved
\* pairs maps to a scalar string and a field that occurs n >= 2 times maps to
\* a list of exactly its n values in decode order.
C13_ScalarThenList ==
    call.name = "decode_metadata" =>
        /\ call.exc = NoError
        /\ DOMAIN call.event.metadata_fields
               = {CallPairs[k][1] : k \in 1..Len(CallPairs)}
        /\ \A f \in DOMAIN call.event.metadata_fields :
              /\ call.event.metadata_fields[f].v = ValuesOf(f)
              /\ call.event.metadata_fields[f].list = (Len(ValuesOf(f)) >= 2)

\* field "a" three times (values a, b, b) and field "b" once (value a)
C13_ThreeAndOne ==
    /\ call.name = "decode_metadata"
    /\ call.event.metadata_fields =
           (<<97>> :> [list |-> TRUE, v |-> << <<97>>, <<98>>, <<98>> >>])
           @@ (<<98>> :> [list |-> FALSE, v |-> << <<97>> >>])

(***************************************************************************)
(* Journals of declarations and state updates: the symbol tables and the   *)
(* active state, record by record.                                         *)
(***************************************************************************)
\* the declarations a journal may open with: two hosts, two sources, a
\* source type and a string
Declarations ==
    << SymbolRec(NEW_HOST, <<104>>), SymbolRec(NEW_HOST, <<105>>),
       SymbolRec(NEW_SOURCE, <<115>>), SymbolRec(NEW_SOURCE, <<114>>),
       SymbolRec(NEW_SOURCE_TYPE, <<116>>), SymbolRec(NEW_STRING, <<107>>) >>

\* the records that follow them
TableRecords ==
    { Rec("nop", NOP, <<>>),
      HeaderRec(1000),
      PrivateRec(<<7>>),
      UnknownRec(DELETE),
      SymbolRec(NEW_HOST, <<106>>),
      StateRec(31, <<3, 2, 1>>, -2),
      StateRec(24, <<1>>, 0),
      StateRec(22, <<1, 1>>, 0),
      EventRec(32, -1, <<>>, 0, 0, <<>>, <<97>>) }

TableJournals ==
    { pre \o j : pre \in {<<>>, Declarations}, j \in JournalsOver(TableRecords) }

SpecTables == InitIn(TableJournals) /\ [][Next]_vars

\* the record whose opcode byte the next iteration reads is record i
Reads(i) == (scanning \/ result # "false") /\ Start(i) = Stream_tell(reader)

\* the active state after the state update that is record i: a value of the
\* record where the flag is set, the previous value where it is clear
StateAfter(i) ==
    [active_host |-> IF BitSet(journal[i].op, 8) THEN journal[i].active_host
                     ELSE active_host,
     active_source |-> IF BitSet(journal[i].op, 4) THEN journal[i].active_source
                       ELSE active_source,
     active_source_type |-> IF BitSet(journal[i].op, 2)
                            THEN journal[i].active_source_type
                            ELSE active_source_type,
     base_event_time |-> IF BitSet(journal[i].op, 1) THEN journal[i].value
                         ELSE base_event_time]

\* a JournalDecoder in the same state, about to handle the same record
SyncAt(i) ==
    [Journal_new(Tail(journal[i].bytes))
        EXCEPT !.opcode = journal[i].op, !.fields = fields,
               !.active_host = active_host, !.active_source = active_source,
               !.active_source_type = active_source_type,
               !.base_time = base_event_time]

StateUpdateStep ==
    \A i \in 1..Len(journal) :
        (Reads(i) /\ journal[i].kind = "state" /\ Whole(i)) =>
            /\ scanning' /\ error' = NoError
            /\ active_host' = StateAfter(i).active_host
            /\ active_source' = StateAfter(i).active_source
            /\ active_source_type' = StateAfter(i).active_source_type
            /\ base_event_time' = StateAfter(i).base_event_time
            /\ Stream_tell(reader') = End(i)
            /\ UNCHANGED <<fields, base_index_time, event>>
            /\ \E r \in {Journal_decode_new_state(SyncAt(i))} :
                  /\ r.exc = NoError
                  /\ r.d.active_host = StateAfter(i).active_host
                  /\ r.d.active_source = StateAfter(i).active_source
                  /\ r.d.active_source_type = StateAfter(i).active_source_type
                  /\ r.d.base_time = StateAfter(i).base_event_time
                  /\ r.d.reader.pos = Len(journal[i].bytes) - 1
                  /\ r.d.fields = fields /\ r.d.event = Event_new

\* C14: a state-update record (opcode 0x11-0x1F), whole on the wire, gives
\* each state variable whose flag is set the value the record carries for it,
\* read in the order host, source, sourcetype (uvarints), base_event_time
\* (4 bytes, little endian, signed); a variable whose flag is clear keeps its
\* value; the symbol tables, base_index_time and the current event are left
\* unchanged and exactly the bytes of the record are consumed, in the async
\* and in the synchronous decoder.
C14_StateUpdate == [][StateUpdateStep]_vars

\* all four flags read: host 3, source 2, sourcetype 1 and a negative time,
\* after a record that had set other indices
C14_AllFlagsAfterOthers ==
    /\ scanning
    /\ Aligned
    /\ Current > 1
    /\ journal[Current].op = 31
    /\ journal[Current - 1].op = 22
    /\ active_host = 3 /\ active_source = 2 /\ active_source_type = 1
    /\ base_event_time = -2

\* the string of a declaration record: the bytes after the opcode and the
\* one-byte length, decoded
SymbolText(rec) == Utf8DecodeReplace(SubSeq(rec.bytes, 3, Len(rec.bytes)))

\* the k-th string declared for a table before record i, "" for k = 0
NthDeclared(i, op, k) ==
    IF k = 0 THEN <<>>
    ELSE SymbolText(journal[CHOOSE j \in 1..(i - 1) :
                                /\ journal[j].kind = "symbol" /\ journal[j].op = op
                                /\ Declared(j, op) = k - 1])

\* the event just returned carries the strings its record selects
EventCarriesActive ==
    (/\ Emitted
     /\ Aligned
     /\ journal[Current].kind = "event"
     /\ WellFormedAt(Current))
        => /\ event.host = NthDeclared(Current, NEW_HOST,
                               LastValue(Current, "state", "active_host", 0))
           /\ event.source = NthDeclared(Current, NEW_SOURCE,
                                 LastValue(Current, "state", "active_source", 0))
           /\ event.sourcetype =
                  NthDeclared(Current, NEW_SOURCE_TYPE,
                              LastValue(Current, "state", "active_source_type", 0))

\* an iteration that does not handle an event leaves the event object alone
OnlyEventsWriteEvent == ~is_event_opcode(NextOpcode) => UNCHANGED event

\* C15: the host, source and sourcetype of an emitted event are the strings
\* declared for the indices that the latest state updates before the event
\* set ("" for index 0), and a record that is not an event, whether a state
\* update or a declaration, never changes the event already returned.
C15_ActiveInForce == []EventCarriesActive /\ [][OnlyEventsWriteEvent]_vars

\* an event returned with host "h" (index 1 of two hosts) and no source, then
\* a state update that selects host 3 and source 2: the event keeps both
C15_LaterUpdateKeepsEvent ==
    /\ scanning
    /\ Aligned
    /\ journal[Current].kind = "state"
    /\ found = 1
    /\ event.host = <<104>> /\ event.source = <<>>
    /\ active_host = 3 /\ active_source = 2
    /\ Len(Table(NEW_HOST)) = 2

\* the four symbol tables
SymbolTables == {NEW_HOST, NEW_SOURCE, NEW_SOURCE_TYPE, NEW_STRING}

\* an iteration that reads a whole declaration appends its string to the end
\* of the table of its opcode and changes nothing else of the state
DeclarationStep ==
    \A i \in 1..Len(journal) :
        (Reads(i) /\ journal[i].kind = "symbol" /\ Whole(i)) =>
            /\ Table(journal[i].op)' = Append(Table(journal[i].op), SymbolText(journal[i]))
            /\ \A op \in SymbolTables \ {journal[i].op} : Table(op)' = Table(op)
            /\ UNCHANGED <<active_host, active_source, active_source_type,
                           base_event_time, base_index_time, event>>

\* no iteration removes or rewrites an entry, and only a declaration adds one
EntriesStay ==
    \A op \in SymbolTables :
        /\ Len(Table(op)') >= Len(Table(op))
        /\ SubSeq(Table(op)', 1, Len(Table(op))) = Table(op)
        /\ NextOpcode # op => Table(op)' = Table(op)

\* the string at index k of a table is the k-th string declared for it
TablesAreDeclarations ==
    \A op \in SymbolTables :
        /\ Len(Table(op)) <= Declared(Len(journal) + 1, op)
        /\ \A k \in 1..Len(Table(op)) :
               Table(op)[k] = NthDeclared(Len(journal) + 1, op, k)

\* C16: each NEW_HOST / NEW_SOURCE / NEW_SOURCE_TYPE / NEW_STRING record
\* appends exactly one string to the end of its own table and leaves the
\* other three tables and the active state unchanged; no iteration, DELETE
\* (0x08) included, removes or rewrites an entry, so the string at 1-based
\* index k of a table is always the k-th string declared for that table.
C16_AppendOnly ==
    []TablesAreDeclarations /\ [][DeclarationStep /\ EntriesStay]_vars

\* a third host declared after a state update, then DELETE read: the call
\* fails and the four tables hold their declarations in order
C16_ThirdHostThenDelete ==
    /\ Stopped
    /\ Aligned
    /\ opcode = DELETE
    /\ Current > 1
    /\ journal[Current - 1].kind = "symbol"
    /\ Table(NEW_HOST) = << <<104>>, <<105>>, <<106>> >>
    /\ Table(NEW_SOURCE) = << <<115>>, <<114>> >>
    /\ Table(NEW_SOURCE_TYPE) = << <<116>> >>
    /\ Table(NEW_STRING) = << <<107>> >>
    /\ active_host = 1

(***************************************************************************)
(* Properties of the HEADER record and of the event flags.                 *)
(***************************************************************************)
\* the journal is made of HEADER records only, at least one
HeadersOnly == journal # <<>> /\ \A i \in 1..Len(journal) : journal[i].kind = "header"

\* C17: the iteration that reads a whole HEADER record consumes the 6 bytes
\* after the opcode and sets base_index_time to their 32-bit value;
\* base_index_time is 0 until then and is always the value of the last
\* HEADER handled; on a stream of whole HEADER records alone both decoders
\* return false from scan() at the end of the stream, without an error, and
\* hold the last HEADER's value as base_index_time.
C17_HeaderSetsBaseIndexTime ==
    /\ last = "none" => base_index_time = 0
    /\ (Aligned /\ Whole(Current)) =>
          base_index_time = LastValue(Current + 1, "header", "value", 0)
    /\ (Aligned /\ Whole(Current) /\ journal[Current].kind = "header") =>
          /\ Stream_tell(reader) = End(Current)
          /\ error = NoError
    /\ (HeadersOnly /\ cut = 0 /\ Stopped) =>
          /\ error = NoError
          /\ Stream_tell(reader) = Len(Delivered)
          /\ base_index_time = journal[Len(journal)].value
    /\ (HeadersOnly /\ cut = 0 /\ sync.result = "false") =>
          /\ sync.d.error = NoError
          /\ sync.d.reader.pos = Len(Delivered)
          /\ "base_index_time" \in DOMAIN sync.d
          /\ sync.d.base_index_time = journal[Len(journal)].value

\* the event opcodes
EventOpcodes == {OLDSTYLE_EVENT, OLDSTYLE_EVENT_WITH_HASH} \cup (32..43)

\* extended storage payloads and messages of the events below
Storages == {<<>>, <<9>>, <<9, 8>>}

Messages == {<<>>, <<97, 98>>}

\* two calls of scan() on a decoder of its own, over a journal of two event
\* records of any two opcodes: the second event is decoded into the object
\* the first one left
ScanTwoEvents ==
    /\ call = NoCall
    /\ \E op1 \in EventOpcodes, op2 \in EventOpcodes, storage \in Storages,
          message \in Messages :
          \E first \in {EventRec(op1, -1, storage, 0, 0, <<>>, message)},
             second \in {EventRec(op2, -1, storage, 0, 0, <<>>, message)} :
             \E r1 \in {scan_iteration(Decoder_new(first.bytes \o second.bytes,
                                                    DefaultChunk))} :
                \E r2 \in {scan_iteration(r1.d)} :
                   call' = [name |-> "scan", first |-> first, second |-> second,
                            storage |-> storage,
                            ret1 |-> r1.ret, event1 |-> r1.d.event,
                            tell1 |-> Stream_tell(r1.d.reader),
                            ret2 |-> r2.ret, event2 |-> r2.d.event,
                            tell2 |-> Stream_tell(r2.d.reader)]
    /\ UNCHANGED <<decoder_vars, heap, tasks, journal, cut, scanning, calls, result, found,
                   last, at, sync>>

SpecEvents == InitCalls /\ [][ScanTwoEvents]_vars

\* the hash bytes an event record carries
WireHash == [i \in 1..HASH_SIZE |-> 7]

\* the event e a call returned for the record rec, having read up to tell
\* from the record's first byte at from: its optional fields follow the
\* bits of the opcode
FlagsFollowOpcode(rec, storage, ret, e, from, tell) ==
    /\ ret = "true"
    /\ e.has_hash = ~BitSet(rec.op, 1)
    /\ e.hash = IF BitSet(rec.op, 1) THEN ZeroHash ELSE WireHash
    /\ e.has_extended_storage = BitSet(rec.op, 4)
    /\ e.extended_storage_len = IF BitSet(rec.op, 4) THEN Len(storage) ELSE 0
    /\ e.include_punctuation = (BitSet(rec.op, 2) /\ BitSet(rec.op, 32))
    /\ e.stream_id = <<5, 0, 0, 0, 0, 0, 0, 0>>
    /\ e.message = rec.message
    /\ tell = from + Len(rec.bytes)

\* C18: for every event opcode, whatever event was decoded before, the
\* event has a hash (the 20 bytes that follow on the wire) iff bit 0 of the
\* opcode is 0, an extended storage length (and that many bytes consumed
\* before the message) iff bit 2 is 1, and include_punctuation iff
\* (opcode & 0x22) = 0x22; the fields after them and the message are read
\* from where they stand and the record is consumed exactly.
C18_FlagsFromOpcode ==
    call.name = "scan" =>
        /\ FlagsFollowOpcode(call.first, call.storage, call.ret1, call.event1,
                             0, call.tell1)
        /\ FlagsFollowOpcode(call.second, call.storage, call.ret2, call.event2,
                             call.tell1, call.tell2)

\* 0x22 (hash, punctuation) then 0x25 with two bytes of extended storage (no
\* hash, no punctuation)
C18_HashThenStorage ==
    /\ call.name = "scan"
    /\ call.first.op = 34 /\ call.second.op = 37
    /\ call.storage = <<9, 8>>
    /\ call.event1.has_hash /\ call.event1.include_punctuation
    /\ ~call.event1.has_extended_storage
    /\ ~call.event2.has_hash /\ ~call.event2.include_punctuation
    /\ call.event2.has_extended_storage /\ call.event2.extended_storage_len = 2
    /\ call.event2.message = <<97, 98>>

(***************************************************************************)
(* The buffered stream on its own: a stream over a source of distinct      *)
(* bytes, and the calls a caller makes on it one after the other.  call    *)
(* holds the last call, the stream s after it, the bytes v or the integer  *)
(* k it returned and the exception it raised.                              *)
(***************************************************************************)
\* the longest source
MaxData == 4

\* the largest number of bytes asked for
MaxAsk == 3

\* chunk sizes: every byte pulled on its own, pulls that leave a byte in
\* the buffer, and the default
Chunks == {1, 2, DefaultChunk}

\* AsyncBytesReader(data) for the bytes 1, 2, ..., len
SourceData(len) == [i \in 1..len |-> i]

\* sources that hold varints: 300 and 385 on two bytes each (test_read_uvarint);
\* 1 and a varint cut after its first byte; the raw values 0, 1, 2 of
\* test_read_varint; 3, 2 and 255 on two bytes
VarintSources == { <<172, 2, 129, 3>>, <<1, 130>>, <<0, 1, 2>>, <<3, 2, 255, 1>> }

\* unsigned values on one, two, three and four bytes
RawValues == {0, 1, 2, 127, 128, 300, 16382, 16383, 16384, 2097151, 2097152}

\* _encode_uvarint(x) alone in the source, and followed by another byte
EncodedSources ==
    {encode_uvarint(x) : x \in RawValues} \cup {encode_uvarint(x) \o <<129>> : x \in {1, 300}}

Sources == {SourceData(len) : len \in 0..MaxData} \cup VarintSources \cup EncodedSources

\* AsyncJournalStream(AsyncBytesReader(data), chunk_size), a stream of its
\* own, opened where the decoder has no journal to read
StreamOpen ==
    /\ call = NoCall
    /\ journal = <<>>
    /\ \E data \in Sources, chunk \in Chunks :
          call' = [name |-> "open", n |-> 0, data |-> data,
                   s |-> Stream_init(data, chunk), v |-> <<>>,
                   k |-> 0, exc |-> NoError]
    /\ UNCHANGED <<decoder_vars, heap, tasks, journal, cut, scanning, calls, result, found,
                   last, at, sync>>

\* the call r = [s, v, exc] made on the stream
StreamCall(name, n, r) ==
    /\ call' = [name |-> name, n |-> n, data |-> call.data, s |-> r.s,
                v |-> IF name \in {"read", "peek"} THEN r.v ELSE <<>>,
                k |-> IF name \in {"read", "peek"} THEN 0 ELSE r.v,
                exc |-> r.exc]
    /\ UNCHANGED <<decoder_vars, heap, tasks, journal, cut, scanning, calls, result, found,
                   last, at, sync>>

StreamRead ==
    /\ call # NoCall
    /\ \E n \in -1..MaxAsk : StreamCall("read", n, Stream_read(call.s, n))

StreamReadByte ==
    /\ call # NoCall
    /\ StreamCall("read_byte", 1, Stream_read_byte(call.s))

StreamPeek ==
    /\ call # NoCall
    /\ \E n \in -1..MaxAsk : StreamCall("peek", n, Stream_peek(call.s, n))

\* skip is called with a length read from the wire or a count of peeked
\* bytes, never a negative number
StreamSkip ==
    /\ call # NoCall
    /\ \E n \in 0..MaxAsk : StreamCall("skip", n, Stream_skip(call.s, n))

StreamReadUvarint ==
    /\ call # NoCall
    /\ StreamCall("read_uvarint", 0, Stream_read_uvarint(call.s))

StreamReadVarint ==
    /\ call # NoCall
    /\ StreamCall("read_varint", 0, Stream_read_varint(call.s))

NextStream ==
    \/ StreamOpen
    \/ StreamRead
    \/ StreamReadByte
    \/ StreamPeek
    \/ StreamSkip
    \/ StreamReadUvarint
    \/ StreamReadVarint

SpecStream == InitCalls /\ [][NextStream]_vars

\* the bytes of the source not yet consumed
Remaining(c) == SubSeq(c.data, c.s.pos + 1, Len(c.data))

\* the bytes the stream has yet to deliver: buffered, then unread
Rest(s) == s.buffer \o s.src

ReadStep ==
    (call'.name = "read" /\ call'.n >= 0) =>
        IF call'.n <= Len(Remaining(call))
        THEN /\ call'.exc = NoError
             /\ call'.v = SubSeq(Remaining(call), 1, call'.n)
             /\ Stream_tell(call'.s) = Stream_tell(call.s) + call'.n
             /\ Remaining(call') = SubSeq(Remaining(call), call'.n + 1,
                                          Len(Remaining(call)))
        ELSE /\ call'.exc = EOFError
             /\ call'.v = <<>>
             /\ Stream_tell(call'.s) = Stream_tell(call.s)

\* C19: read(n) returns exactly the next n bytes of the source and advances
\* tell() by n; when fewer than n bytes remain before the end of the source
\* it raises the end-of-stream error and returns nothing.
C19_ReadExact == [][ReadStep]_vars

\* read(2) of bytes 2 and 3 of a 4-byte source pulled one byte at a time,
\* after a call that consumed byte 1
C19_ReadAcrossChunks ==
    /\ call.name = "read"
    /\ call.n = 2
    /\ call.s.chunk_size = 1
    /\ call.data = <<1, 2, 3, 4>>
    /\ call.v = <<2, 3>>
    /\ Stream_tell(call.s) = 3

\* the result [v or k, exc, tell, bytes left to consume] of a call r
Outcome(r) ==
    [v |-> r.v, exc |-> r.exc, tell |-> Stream_tell(r.s), rest |-> Rest(r.s)]

PeekStep ==
    (call'.name = "peek" /\ call'.n >= 0) =>
        /\ call'.exc = NoError
        /\ call'.v = SubSeq(Remaining(call), 1, Min(call'.n, Len(Remaining(call))))
        /\ Stream_tell(call'.s) = Stream_tell(call.s)
        /\ Rest(call'.s) = Rest(call.s)
        /\ Outcome(Stream_read_byte(call'.s)) = Outcome(Stream_read_byte(call.s))
        /\ \A m \in 0..MaxAsk :
              /\ Outcome(Stream_read(call'.s, m)) = Outcome(Stream_read(call.s, m))
              /\ Outcome(Stream_skip(call'.s, m)) = Outcome(Stream_skip(call.s, m))
              /\ Stream_read(call'.s, m).exc = NoError =>
                    SubSeq(Stream_read(call'.s, m).v, 1, Min(m, Len(call'.v)))
                        = SubSeq(call'.v, 1, Min(m, Len(call'.v)))

\* C20: peek(n) returns the next min(n, bytes remaining) bytes, raises
\* nothing at the end of the source and leaves tell() and the bytes still to
\* be consumed as they were: read, read_byte and skip called after it return
\* what they would have returned without it, a read starting with the
\* peeked bytes.
C20_PeekConsumesNothing == [][PeekStep]_vars

\* peek(3) with one byte left of a 4-byte source: that byte, no exception,
\* tell() still 3
C20_ShortPeekAtEnd ==
    /\ call.name = "peek"
    /\ call.n = 3
    /\ call.data = <<1, 2, 3, 4>>
    /\ call.v = <<4>>
    /\ call.exc = NoError
    /\ call.s.eof
    /\ Stream_tell(call.s) = 3

(***************************************************************************)
(* Properties of the position of the stream.                               *)
(***************************************************************************)
\* the bytes a call hands to its caller or drops: those of the source
\* between tell() before it and tell() after it
Consumed(c, d) == SubSeq(c.data, Stream_tell(c.s) + 1, Stream_tell(d.s))

\* tell() is the number of bytes of the source that are neither buffered nor
\* still in the source
TellIsConsumed(s, data) ==
    /\ Stream_tell(s) + Len(Rest(s)) = Len(data)
    /\ Rest(s) = SubSeq(data, Stream_tell(s) + 1, Len(data))

\* what each call consumes
TellStep ==
    (call # NoCall /\ call' # call) =>
        /\ Stream_tell(call'.s) >= Stream_tell(call.s)
        /\ (call'.name = "read" /\ call'.exc = NoError) => Consumed(call, call') = call'.v
        /\ (call'.name = "read_byte" /\ call'.exc = NoError)
              => Consumed(call, call') = <<call'.k>>
        /\ (call'.name = "skip" /\ call'.exc = NoError)
              => Len(Consumed(call, call')) = call'.n
        /\ (call'.name = "read_uvarint" /\ call'.exc = NoError)
              => /\ Consumed(call, call') = encode_uvarint(call'.k)
                 /\ decode_uvarint_from_bytes(Remaining(call), 0).value = call'.k
        /\ call'.name = "peek" => Consumed(call, call') = <<>>
        /\ (call'.exc # NoError /\ call'.name \notin {"read_uvarint", "read_varint"})
              => Consumed(call, call') = <<>>

\* the value a call of the stream returned, as call holds it
Returned(name, r) ==
    [s |-> r.s, v |-> IF name \in {"read", "peek"} THEN r.v ELSE <<>>,
     k |-> IF name \in {"read", "peek"} THEN 0 ELSE r.v, exc |-> r.exc]

\* JournalStream does what the call just made on the async stream did
SyncStreamStep ==
    (call' # call /\ call'.name \in {"read", "read_byte", "peek", "skip", "read_uvarint"}) =>
        Returned(call'.name, JournalStream_call(call'.name, call.s, call'.n))
            = [s |-> call'.s, v |-> call'.v, k |-> call'.k, exc |-> call'.exc]

\* the decoder over a journal, and beside it a stream that takes direct
\* calls; the records are those of Records that differ in how they consume
TellRecords ==
    { Rec("nop", NOP, <<>>),
      HeaderRec(1000),
      SymbolRec(NEW_HOST, <<104>>),
      PrivateRec(<<7>>),
      StateRec(17, <<>>, 7),
      UnknownRec(255),
      EventRec(OLDSTYLE_EVENT, -1, <<>>, 100, 3, <<>>, <<104, 105>>),
      EventRec(OLDSTYLE_EVENT, 0, <<>>, 1, 2, <<>>, <<>>),
      EventRec(38, -1, <<9>>, 4, 5, <<>>, <<120, 255>>) }

NextTell == Next \/ NextStream

SpecTell == InitOver(TellRecords) /\ [][NextTell]_vars

\* the stream of the decoder in the scan loop
ScanTell ==
    /\ TellIsConsumed(reader, Delivered)
    /\ (Stopped /\ last = "eof" /\ error = NoError)
          => /\ reader.eof
             /\ reader.buffer = <<>>
             /\ reader.src = <<>>
             /\ Stream_tell(reader) = Len(Delivered)

\* an iteration of scan() consumes the bytes between tell() before it and
\* tell() after it
ScanTellStep ==
    /\ Stream_tell(reader') >= Stream_tell(reader)
    /\ Rest(reader') = SubSeq(Rest(reader),
                              Stream_tell(reader') - Stream_tell(reader) + 1,
                              Len(Rest(reader)))

\* C21: after any sequence of read, read_byte, peek, skip and read_uvarint
\* calls, on the async stream and on JournalStream alike, tell() is the
\* number of bytes of the source consumed: the bytes before tell() are those
\* the calls returned or skipped, those after it are still to come; so an
\* iteration of scan() consumes tell() after minus tell() before bytes, and
\* after scan() returns false at a clean end of stream the source has
\* returned empty and the buffer is empty.
C21_TellIsConsumed ==
    /\ [](call # NoCall => TellIsConsumed(call.s, call.data))
    /\ []ScanTell
    /\ [][TellStep /\ SyncStreamStep /\ ScanTellStep]_vars

\* read_uvarint of the two bytes of 385 after 300 was read: tell() = 4
C21_TwoVarintsRead ==
    /\ call # NoCall
    /\ call.name = "read_uvarint"
    /\ call.data = <<172, 2, 129, 3>>
    /\ call.k = 385
    /\ call.exc = NoError
    /\ Stream_tell(call.s) = 4

SkipStep ==
    call'.name = "skip" =>
        /\ Returned("skip", JournalStream_call("skip", call.s, call'.n))
               = [s |-> call'.s, v |-> call'.v, k |-> call'.k, exc |-> call'.exc]
        /\ IF call'.n <= Len(Remaining(call))
           THEN /\ call'.exc = NoError
                /\ call'.k = call'.n
                /\ Stream_tell(call'.s) = Stream_tell(call.s) + call'.n
                /\ Rest(call'.s) = SubSeq(Remaining(call), call'.n + 1,
                                          Len(Remaining(call)))
                /\ \A m \in 1..(Len(Remaining(call)) - call'.n) :
                       Stream_read(call'.s, m).v
                           = SubSeq(Remaining(call), call'.n + 1, call'.n + m)
           ELSE /\ call'.exc = EOFError
                /\ Stream_tell(call'.s) = Stream_tell(call.s)

\* C22: skip(n) advances tell() by exactly n and drops exactly the next n
\* bytes, pulling from the source when the buffer holds fewer, so a read
\* after it returns the bytes right after the skipped ones; with fewer than
\* n bytes left it raises the end-of-stream error; on both streams.
C22_SkipExact == [][SkipStep]_vars

\* skip(2) over bytes 2 and 3 of a source pulled one byte at a time, after
\* byte 1 was consumed: tell() = 3 and byte 4 is next
C22_SkipAcrossChunks ==
    /\ call.name = "skip"
    /\ call.n = 2
    /\ call.s.chunk_size = 1
    /\ call.data = <<1, 2, 3, 4>>
    /\ call.exc = NoError
    /\ Stream_tell(call.s) = 3
    /\ Stream_read(call.s, 1).v = <<4>>

(***************************************************************************)
(* C23: read_varint on both streams, and decode_varint_from_bytes.         *)
(***************************************************************************)
\* what read_varint has to give where read_uvarint gives u
VarintOf(u) ==
    [s |-> u.s, v |-> <<>>, k |-> IF u.exc = NoError THEN ZigZag(u.v) ELSE u.v,
     exc |-> u.exc]

ReadVarintStep ==
    call'.name = "read_varint" =>
        With(VarintOf(Stream_read_uvarint(call.s)), LAMBDA want :
            \* AsyncJournalStream
            /\ [s |-> call'.s, v |-> call'.v, k |-> call'.k, exc |-> call'.exc] = want
            \* JournalStream
            /\ Returned("read_varint", JournalStream_call("read_varint", call.s, 0)) = want
            \* the same value, and the bytes consumed, from the byte array
            /\ want.exc = NoError =>
                   decode_varint_from_bytes(Remaining(call), 0)
                       = [value |-> want.k, n |-> Stream_tell(want.s) - Stream_tell(call.s),
                          exc |-> NoError])

\* C23: on JournalStream and on AsyncJournalStream read_varint consumes one
\* varint u, as read_uvarint does, and returns its zigzag decoding (0 -> 0,
\* 1 -> -1, 2 -> 1); decode_varint_from_bytes gives the same value with the
\* number of bytes the varint takes
C23_ReadVarintZigZag ==
    /\ [][ReadVarintStep]_vars
    /\ ZigZag(0) = 0 /\ ZigZag(1) = -1 /\ ZigZag(2) = 1

(***************************************************************************)
(* C24: decode_uvarint_from_bytes and its truncation signal.               *)
(***************************************************************************)
\* the value of the 7-bit groups b[from], ..., b[to], least significant first
RECURSIVE GroupsValue(_, _, _)
GroupsValue(b, from, to) ==
    IF from > to THEN 0 ELSE (b[from] % 128) + 128 * GroupsValue(b, from + 1, to)

\* the index of the first byte at or after offset (0-based) with a clear high
\* bit, 0 when the array ends before one
Terminator(b, offset) ==
    IF \E j \in (offset + 1)..Len(b) : b[j] < 128
    THEN CHOOSE j \in (offset + 1)..Len(b) :
             b[j] < 128 /\ \A k \in (offset + 1)..(j - 1) : b[k] >= 128
    ELSE 0

\* decode_uvarint_from_bytes(b, offset) returns (value, n >= 1) over a
\* terminated varint and the signal (0, -1) over a truncated one
UvarintResult(b, offset) ==
    With(decode_uvarint_from_bytes(b, offset), LAMBDA r :
        IF Terminator(b, offset) # 0
        THEN /\ r.n = Terminator(b, offset) - offset
             /\ r.n >= 1
             /\ r.value = GroupsValue(b, offset + 1, Terminator(b, offset))
             /\ r.exc = NoError
        ELSE r = [value |-> 0, n |-> -1, exc |-> NoError])

\* the fields _decode_event reads from its peek for an opcode: 0 a varint,
\* a positive number that many raw bytes
HeaderLayout(op) ==
    <<0>> \o (IF BitSet(op, 4) THEN <<0>> ELSE <<>>)
          \o (IF BitSet(op, 1) THEN <<>> ELSE <<HASH_SIZE>>)
          \o <<8, 0, 0, 0, 0, 0>>

\* some varint of the layout is truncated in peek
RECURSIVE TruncationSignalled(_, _, _)
TruncationSignalled(peek, offset, layout) ==
    IF layout = <<>> THEN FALSE
    ELSE IF Head(layout) = 0
         THEN \/ Terminator(peek, offset) = 0
              \/ TruncationSignalled(peek, Terminator(peek, offset), Tail(layout))
    ELSE TruncationSignalled(peek, offset + Head(layout), Tail(layout))

\* what _decode_event peeked for the record whose opcode is at offset at
PeekedAt(from) == SubSeq(Delivered, from + 2, Min(Len(Delivered), from + 1 + EVENT_INFO_SIZE))

\* a call of scan() has just ended on an event record
EventScanned == ~scanning /\ last = "record" /\ is_event_opcode(opcode)

\* C24: decode_uvarint_from_bytes returns (value, n) with n >= 1 when the
\* varint is terminated inside the array and signals a truncation when the
\* array ends before a byte with a clear high bit; a call of scan() whose
\* event header holds such a truncated varint ends with a decode error: it
\* returns false with err() set
C24_TruncationIsADecodeError ==
    EventScanned =>
        /\ \A offset \in 0..Len(PeekedAt(at)) : UvarintResult(PeekedAt(at), offset)
        /\ TruncationSignalled(PeekedAt(at), 0, HeaderLayout(opcode))
               => result = "false" /\ error # NoError

\* the first conjunct alone
C24_UvarintResultOnly ==
    EventScanned => \A offset \in 0..Len(PeekedAt(at)) : UvarintResult(PeekedAt(at), offset)

(***************************************************************************)
(* C25: the varint round trip.                                             *)
(***************************************************************************)
IsPrefix(p, b) == Len(p) <= Len(b) /\ SubSeq(b, 1, Len(p)) = p

\* the zigzag encoding of a signed value: (x << 1) ^ (x >> 63)
ZigZagEncode(x) == IF x >= 0 THEN 2 * x ELSE -2 * x - 1

\* the signed values, and the shifted values with their low bit, whose raw
\* encodings are among RawValues
SignedValues == {ZigZag(u) : u \in RawValues}

ShiftedValues == {<<u \div 2, u % 2>> : u \in RawValues}

\* the source of c begins with _encode_uvarint(u): the byte-array decoders
\* and the stream give back what was encoded and consume its bytes
RoundTrip(c, u) ==
    With(Len(encode_uvarint(u)), LAMBDA len :
        /\ decode_uvarint_from_bytes(c.data, 0) = [value |-> u, n |-> len, exc |-> NoError]
        /\ With(Stream_read_uvarint(c.s), LAMBDA r :
               r.exc = NoError /\ r.v = u /\ Stream_tell(r.s) = len)
        /\ With(JournalStream_call("read_uvarint", c.s, 0), LAMBDA r :
               r.exc = NoError /\ r.v = u /\ Stream_tell(r.s) = len)
        /\ \A x \in SignedValues :
               ZigZagEncode(x) = u =>
                   /\ decode_varint_from_bytes(c.data, 0)
                          = [value |-> x, n |-> len, exc |-> NoError]
                   /\ With(Stream_read_varint(c.s), LAMBDA r :
                          r.exc = NoError /\ r.v = x /\ Stream_tell(r.s) = len)
        /\ \A x \in ShiftedValues :
               2 * x[1] + x[2] = u =>
                   decode_shifted_varint_from_bytes(c.data, 0)
                       = [value |-> x[1], n |-> len, exc |-> NoError])

\* a stream just opened on an encoded value
RoundTripOpened ==
    call.name = "open" =>
        \A u \in RawValues : IsPrefix(encode_uvarint(u), call.data) => RoundTrip(call, u)

\* the first call made on it
RoundTripStep ==
    (call.name = "open" /\ call' # call) =>
        \A u \in RawValues :
            IsPrefix(encode_uvarint(u), call.data) =>
                /\ call'.name = "read_uvarint" =>
                       /\ call'.exc = NoError /\ call'.k = u
                       /\ Stream_tell(call'.s) = Len(encode_uvarint(u))
                /\ call'.name = "read_varint" =>
                       /\ call'.exc = NoError /\ ZigZagEncode(call'.k) = u
                       /\ Stream_tell(call'.s) = Len(encode_uvarint(u))

\* C25: the bytes _encode_uvarint produces for x decode, with
\* decode_uvarint_from_bytes and with the stream's read_uvarint, to x, and
\* exactly the encoded length is consumed; the same holds for a signed value
\* through its zigzag encoding and for a shifted value with its low bit
C25_VarintRoundTrip ==
    /\ []RoundTripOpened
    /\ [][RoundTripStep]_vars
    /\ \A x \in SignedValues : ZigZag(ZigZagEncode(x)) = x

C25_ThreeByteValueRead ==
    /\ call.name = "read_uvarint"
    /\ call.data = encode_uvarint(16384)
    /\ Len(call.data) = 3
    /\ call.k = 16384
    /\ call.exc = NoError
    /\ Stream_tell(call.s) = 3

(***************************************************************************)
(* C26: the journal of the test builder (test_async_decoder.py).           *)
(***************************************************************************)
\* b"test-host", b"test-source", b"test-stype"
TestHost == <<116, 101, 115, 116, 45, 104, 111, 115, 116>>

TestSource == <<116, 101, 115, 116, 45, 115, 111, 117, 114, 99, 101>>

TestSourceType == <<116, 101, 115, 116, 45, 115, 116, 121, 112, 101>>

\* _build_minimal_journal(message), record by record
build_minimal_journal(message) ==
    LET event_fields_after_msg_len ==
            <<0, 0, 0, 0, 0, 0, 0, 0>>
            \o encode_uvarint(0) \o encode_uvarint(0) \o encode_uvarint(100)
            \o encode_uvarint(0) \o encode_uvarint(0)
        wire_msg_len == Len(event_fields_after_msg_len) + Len(message)
    IN  << HeaderRec(1000),
           SymbolRec(NEW_HOST, TestHost),
           SymbolRec(NEW_SOURCE, TestSource),
           SymbolRec(NEW_SOURCE_TYPE, TestSourceType),
           StateRec(30, <<1, 1, 1>>, 0),
           [EventRec(OLDSTYLE_EVENT, -1, <<>>, 100, 0, <<>>, message)
               EXCEPT !.bytes = <<OLDSTYLE_EVENT>> \o encode_uvarint(wire_msg_len)
                                \o event_fields_after_msg_len \o message] >>

\* a message of the given length
LongMessage(len) == [i \in 1..len |-> 97 + (i % 26)]

\* the messages built: every string of at most two bytes over ASCII, NUL,
\* the two bytes of "e acute" and a byte that is not UTF-8; b"hello world";
\* and messages that make the wire length take two bytes, exceed the peeked
\* header, and exceed it with the header
BuilderMessages ==
    UNION { [1..n -> {0, 97, 195, 169, 255}] : n \in 0..2 }
    \cup { <<104, 101, 108, 108, 111, 32, 119, 111, 114, 108, 100>>,
           LongMessage(114), LongMessage(115), LongMessage(EVENT_INFO_SIZE),
           LongMessage(300) }

\* the longest message whose text is compared as a string
MaxText == 16

\* the handlers the records of the builder reach
NextBuilt ==
    \/ ScanEof
    \/ ScanHeader
    \/ ScanNewSymbol
    \/ ScanNewState
    \/ ScanEvent

SpecBuilt ==
    InitIn({build_minimal_journal(message) : message \in BuilderMessages})
        /\ [][NextBuilt]_vars

\* the message the journal was built from
BuiltMessage == journal[6].message

\* C26: the journal the test builder assembles for a message (HEADER with
\* base 1000, one host, source and sourcetype, the state update 0x1E
\* selecting index 1 of each, one 0x01 event with index_time_diff 100,
\* metadata_count 0 and an exact wire length) decodes to exactly one event:
\* the first scan() returns true with that message, the declared host,
\* source and sourcetype and index_time 1100, and the second returns false
\* with no error
C26_BuiltJournalRoundTrip ==
    cut = 0 =>
        /\ found <= 1
        /\ (~scanning /\ calls = 1) => Emitted
        /\ Emitted =>
             /\ calls = 1
             /\ event.message = BuiltMessage
             /\ Len(BuiltMessage) <= MaxText
                    => Event_message_string(event) = Utf8DecodeReplace(BuiltMessage)
             /\ event.host = Utf8DecodeReplace(TestHost)
             /\ event.source = Utf8DecodeReplace(TestSource)
             /\ event.sourcetype = Utf8DecodeReplace(TestSourceType)
             /\ event.index_time = 1100
             /\ event.metadata_count = 0
             /\ Stream_tell(reader) = Len(Wire(journal))
        /\ Stopped =>
             /\ calls = 2
             /\ found = 1
             /\ error = NoError
             /\ last = "eof"

\* the second scan() has returned false after the event "hello world"
C26_HelloWorldThenEnd ==
    /\ cut = 0
    /\ Stopped
    /\ calls = 2
    /\ found = 1
    /\ error = NoError
    /\ event.message = <<104, 101, 108, 108, 111, 32, 119, 111, 114, 108, 100>>
    /\ event.index_time = 1100
    /\ event.host = TestHost

(***************************************************************************)
(* C27: NOP and SPLUNK_PRIVATE records.                                    *)
(***************************************************************************)
\* payloads of SPLUNK_PRIVATE records: none, one byte, bytes that read as
\* opcodes and as a varint, and one whose length takes two bytes
PrivatePayloads == {<<>>, <<7>>, <<1, 128, 3>>, LongMessage(130)}

FrameRecords ==
    { Rec("nop", NOP, <<>>),
      HeaderRec(1000),
      SymbolRec(NEW_HOST, <<104>>),
      StateRec(25, <<1>>, 7),
      UnknownRec(255),
      EventRec(OLDSTYLE_EVENT, -1, <<>>, 100, 3, <<>>, <<104, 105>>) }
    \cup { PrivateRec(payload) : payload \in PrivatePayloads }

SpecFrames == InitOver(FrameRecords) /\ [][Next]_vars

\* the bytes a NOP or SPLUNK_PRIVATE record takes: the opcode, and for
\* SPLUNK_PRIVATE the uvarint L and L bytes
FrameLength(rec) ==
    IF rec.kind = "nop" THEN 1
    ELSE With(decode_uvarint_from_bytes(rec.bytes, 1), LAMBDA l : 1 + l.n + l.value)

SkippedRecordStep ==
    \A i \in 1..Len(journal) :
        (Reads(i) /\ journal[i].kind \in {"nop", "private"} /\ Whole(i)) =>
            /\ Len(journal[i].bytes) = FrameLength(journal[i])
            /\ Stream_tell(reader') = Stream_tell(reader) + FrameLength(journal[i])
            /\ scanning' /\ error' = NoError
            /\ UNCHANGED <<fields, active_host, active_source, active_source_type,
                           base_event_time, base_index_time, event>>
            /\ NextOpcode' = IF End(i) < Len(Delivered) THEN Delivered[End(i) + 1] ELSE -1
            /\ \E r \in {Journal_decode_next(SyncAt(i))} :
                  /\ r.exc = NoError
                  /\ r.d.reader.pos = FrameLength(journal[i]) - 1
                  /\ [r.d EXCEPT !.reader = SyncAt(i).reader] = SyncAt(i)

\* C27: the iteration that handles a NOP record consumes its opcode byte and
\* nothing else, the one that handles a SPLUNK_PRIVATE record its opcode, the
\* uvarint L and the L bytes after it; the symbol tables, the active state,
\* the base times and the current event stay as they were, in both
\* decoders, and the loop goes on to read the next opcode from the byte
\* right after the record
C27_SkippedRecords == [][SkippedRecordStep]_vars

\* a SPLUNK_PRIVATE record of 130 bytes skipped after a host was declared
\* and selected, the next record not yet read
C27_LongPrivateSkipped ==
    /\ scanning
    /\ Aligned
    /\ Current = 3
    /\ journal[Current].kind = "private"
    /\ Len(journal[Current].bytes) = 133
    /\ Stream_tell(reader) = End(Current)
    /\ active_host = 1
    /\ Table(NEW_HOST) # <<>>
    /\ error = NoError

(***************************************************************************)
(* C28: discard.                                                           *)
(***************************************************************************)
StreamDiscard ==
    /\ call # NoCall
    /\ \E n \in 0..MaxAsk : StreamCall("discard", n, Stream_discard(call.s, TRUE, n))

\* discard() with no argument
StreamDiscardAll ==
    /\ call # NoCall
    /\ StreamCall("discard_all", 0, Stream_discard(call.s, FALSE, 0))

NextDiscard == NextStream \/ StreamDiscard \/ StreamDiscardAll

SpecDiscard == InitCalls /\ [][NextDiscard]_vars

\* the number of bytes a discard drops
Dropped(c, d) ==
    IF d.name = "discard_all" THEN Len(c.s.buffer) ELSE Min(d.n, Len(c.s.buffer))

DiscardStep ==
    call'.name \in {"discard", "discard_all"} =>
        /\ call'.s.buffer = SubSeq(call.s.buffer, Dropped(call, call') + 1,
                                   Len(call.s.buffer))
        /\ Stream_tell(call'.s) = Stream_tell(call.s)
        /\ call'.s.src = call.s.src
        /\ call'.s.eof = call.s.eof
        /\ call'.exc = NoError
        /\ Returned(call'.name, JournalStream_call(call'.name, call.s, call'.n))
               = [s |-> call'.s, v |-> call'.v, k |-> call'.k, exc |-> call'.exc]

\* C28: discard(n) removes min(n, len(buffer)) bytes from the front of the
\* buffer, the whole buffer when n is omitted, leaves tell() unchanged and
\* reads nothing from the source, on both streams
C28_DiscardDropsBuffered == [][DiscardStep]_vars

\* two of four buffered bytes discarded, nothing consumed
C28_HalfTheBufferGone ==
    /\ call.name = "discard"
    /\ call.n = 2
    /\ call.data = <<1, 2, 3, 4>>
    /\ call.s.buffer = <<3, 4>>
    /\ call.s.src = <<>>
    /\ Stream_tell(call.s) = 0

(***************************************************************************)
(* The extractor and the command line (extractor.py, main.py).             *)
(***************************************************************************)
\* Event.to_normalized_dict(): called by the extractor and by the tests, not
\* defined by the Event of decoder.py; the canonical serialization of the
\* specification
to_normalized_dict(e) ==
    [index_time |-> e.index_time, time |-> e.event_time,
     event |-> Event_message_string(e), host |-> e.host,
     sourcetype |-> e.sourcetype, source |-> e.source,
     fields |-> e.metadata_fields]

\* JournalDecoder(<keyword>=...): __init__(self, name) knows no other keyword
JournalDecoder_init(keyword, data) ==
    IF keyword = "name" THEN [d |-> Journal_new(data), exc |-> NoError]
    ELSE [d |-> Journal_new(<<>>),
          exc |-> Raise("TypeError",
                        "__init__() got an unexpected keyword argument")]

\* the loop of extract(): one dictionary written per scan() that returns
\* true, then the decoder's error raised if there is one
RECURSIVE extract_loop(_, _)
extract_loop(d, written) ==
    With(Journal_scan(d), LAMBDA r :
        IF r.ret = "true"
        THEN extract_loop(r.d, Append(written, to_normalized_dict(r.d.event)))
        ELSE [ret |-> Len(written), written |-> written, exc |-> r.d.error])

\* Extractor.extract(input_path, output_path) on a local path: exists says
\* whether the file is there, data what it holds, interrupted whether the
\* user interrupts the program while the input is opened
Extractor_extract(exists, interrupted, data) ==
    IF interrupted
    THEN [ret |-> 0, written |-> <<>>, exc |-> Raise("KeyboardInterrupt", "")]
    ELSE IF ~exists
    THEN [ret |-> 0, written |-> <<>>,
          exc |-> Raise("FileNotFoundError", "Input file not found")]
    ELSE With(JournalDecoder_init("reader", data), LAMBDA decoder :
             IF decoder.exc # NoError
             THEN [ret |-> 0, written |-> <<>>, exc |-> decoder.exc]
             ELSE extract_loop(decoder.d, <<>>))

\* main(): the exit code
main(exists, interrupted, data) ==
    With(Extractor_extract(exists, interrupted, data), LAMBDA r :
        IF r.exc = NoError THEN 0
        ELSE IF r.exc.kind = "KeyboardInterrupt" THEN 130
        ELSE IF r.exc.kind = "FileNotFoundError" THEN 2
        ELSE 1)

\* the records of the input files
ExtractRecords ==
    { HeaderRec(1000),
      SymbolRec(NEW_HOST, <<104>>),
      StateRec(25, <<1>>, 7),
      UnknownRec(255),
      EventRec(OLDSTYLE_EVENT, -1, <<>>, 100, 3, <<>>, <<104, 105>>),
      EventRec(38, -1, <<9>>, 4, 5, <<>>, <<120, 255>>) }

\* the program run on an input path
MainRun ==
    /\ call = NoCall
    /\ \E records \in JournalsOver(ExtractRecords), exists \in BOOLEAN,
          interrupted \in BOOLEAN :
          call' = [name |-> "main", records |-> records, exists |-> exists,
                   interrupted |-> interrupted,
                   out |-> Extractor_extract(exists, interrupted, Wire(records)),
                   code |-> main(exists, interrupted, Wire(records))]
    /\ UNCHANGED <<decoder_vars, heap, tasks, journal, cut, scanning, calls, result, found,
                   last, at, sync>>

SpecMain == InitCalls /\ [][MainRun]_vars

(***************************************************************************)
(* C29, C30: what the extractor writes and what main() returns.            *)
(***************************************************************************)
\* the calls of scan() on a decoder until one returns false: the events the
\* calls that returned true exposed, in order, and the error at the end
RECURSIVE ScanAll(_, _)
ScanAll(d, events) ==
    With(scan_iteration(d), LAMBDA r :
        IF r.ret = "loop" THEN ScanAll(r.d, events)
        ELSE IF r.ret = "true" THEN ScanAll(r.d, Append(events, r.d.event))
        ELSE [events |-> events, error |-> r.d.error])

Scanned(c) == ScanAll(Decoder_new(Wire(c.records), DefaultChunk), <<>>)

\* the dictionary of an event carries the event's decoded fields
NormalizedDict(e) ==
    With(to_normalized_dict(e), LAMBDA dict :
        /\ {"index_time", "time", "event", "host", "source", "sourcetype", "fields"}
               \subseteq DOMAIN dict
        /\ dict.event = Utf8DecodeReplace(e.message)
        /\ dict.host = e.host /\ dict.source = e.source
        /\ dict.sourcetype = e.sourcetype
        /\ dict.index_time = e.index_time)

\* C29: for every event scan() returns, get_event().to_normalized_dict() is
\* a dictionary with the keys index_time, event, host, source, sourcetype
\* (and time, fields), event being the message as a string and the others
\* the event's decoded fields; the extractor writes exactly these
\* dictionaries, one per event, in wire order
C29_ExtractorWritesEvents ==
    (call.name = "main" /\ call.exists /\ ~call.interrupted) =>
        With(Scanned(call).events, LAMBDA events :
            /\ \A k \in 1..Len(events) : NormalizedDict(events[k])
            /\ call.out.written = [k \in 1..Len(events) |-> to_normalized_dict(events[k])])

\* C30: main() returns 0 when the extraction completes, 2 when the input is
\* not found, 130 when it is interrupted and 1 for every other error, the
\* decode error the extractor raises from decoder.err() after the scan loop
\* among them
C30_ExitCodes ==
    call.name = "main" =>
        call.code = IF call.interrupted THEN 130
                    ELSE IF ~call.exists THEN 2
                    ELSE IF Scanned(call).error # NoError THEN 1
                    ELSE 0

\* ---------------------------------------------------------------------
\* scan() called again after it has returned False

\* the calls of scan() a caller makes on one decoder
MaxScans == 6

AgainRecords ==
    { Rec("nop", NOP, <<>>),
      HeaderRec(1000),
      SymbolRec(NEW_HOST, <<104>>),
      PrivateRec(<<7>>),
      StateRec(17, <<>>, 7),
      UnknownRec(255),
      EventRec(OLDSTYLE_EVENT, -1, <<>>, 100, 3, <<>>, <<104, 105>>) }

\* a caller that does not stop at the first False: scan() starts its loop
\* again at `self.opcode = await self.reader.read_byte()`
ScanAgain ==
    /\ ~scanning
    /\ result = "false"
    /\ calls < MaxScans
    /\ \E r \in {scan_iteration(Self)} :
           /\ Becomes(r.d)
           /\ scanning' = (r.ret = "loop")
           /\ calls' = calls + 1
           /\ result' = IF r.ret = "loop" THEN result ELSE r.ret
           /\ found' = IF r.ret = "true" THEN found + 1 ELSE found
           /\ last' = IF NextOpcode = -1 THEN "eof" ELSE "record"
           /\ at' = Stream_tell(reader)
    /\ UNCHANGED <<journal, cut, sync, call, heap, tasks>>

NextAgain == Next \/ ScanAgain

SpecAgain == InitOver(AgainRecords) /\ [][NextAgain]_vars

\* the last call of scan() to return gave False and err() is set
Failed == result = "false" /\ error # NoError

\* C31: a decode error is terminal: once scan() has returned False with
\* err() set, every later call of scan() returns False too and err() still
\* reports that error; no further event is emitted and a later end of
\* stream does not clear the error
C31_ErrorIsTerminal == [][Failed => Failed' /\ error' = error]_vars

\* ---------------------------------------------------------------------
\* termination of scan()

\* the source answers each read, so a call of scan() that is in its loop
\* goes on to its next iteration: weak fairness of the steps of a running
\* call, WF_vars(scanning /\ Next), with ENABLED <<scanning /\ Next>>_vars
\* written as `scanning` (scan_iteration gives every decoder a next state,
\* and IterationConsumes below shows that it differs from the present one)
LoopRuns == []<>(~scanning) \/ []<><<Next>>_vars

SpecTerm == InitOver(FrameRecords) /\ [][Next]_vars /\ LoopRuns

\* the bytes the decoder has not consumed
Unread == Len(Rest(reader))

\* an iteration takes at least its opcode byte from the stream, or it is the
\* one that finds the stream at its end and returns False
IterationConsumes ==
    \/ Unread' < Unread
    \/ ~scanning' /\ result' = "false" /\ error' = NoError /\ Unread' = 0

\* how a call of scan() ends
ScanOutcome ==
    (~scanning /\ calls > 0) =>
        \/ result = "true"
        \/ result = "false" /\ error = NoError /\ last = "eof" /\ Unread = 0
        \/ result = "false" /\ error # NoError /\ last = "record"

\* C32: every call of scan() on a finite stream whose source answers each
\* read terminates: each iteration of the loop consumes at least the opcode
\* byte, so a call in its loop returns after finitely many iterations, and
\* it ends with True, with False at a clean end of stream, or with False
\* and an error
C32_ScanTerminates ==
    /\ [][IterationConsumes]_vars
    /\ []ScanOutcome
    /\ scanning ~> ~scanning

\* a call of scan() that went three times round its loop, over a private
\* record with a two-byte length and a host declaration, and returned True
\* on the event after them
C32_ReturnedAfterLooping ==
    /\ Emitted
    /\ calls = 1
    /\ Len(journal) = 3
    /\ journal[1] = PrivateRec(LongMessage(130))
    /\ journal[2].kind = "symbol"
    /\ Unread = 0

\* ---------------------------------------------------------------------
\* the decoder over sources that split the same bytes differently

\* the longest stream delivered one byte to a read
MaxTrickle == 24

\* how a source delivers: the chunk_size the stream asks with and the most
\* bytes the source returns to one read (at least one while bytes remain)
Deliveries ==
    { [chunk_size |-> 1, cap |-> 1],
      [chunk_size |-> 1, cap |-> 2],
      [chunk_size |-> 2, cap |-> 3],
      [chunk_size |-> DefaultChunk, cap |-> 2],
      [chunk_size |-> DefaultChunk, cap |-> 7] }

\* AsyncJournalDecoder(reader) with AsyncJournalStream(reader, chunk_size)
\* over a reader that returns at most cap bytes
Decoder_over(data, delivery) ==
    With(Decoder_new(data, delivery.chunk_size), LAMBDA d :
        [d EXCEPT !.reader = @ @@ [cap |-> delivery.cap]])

InitChunks ==
    /\ journal \in JournalsOver(AgainRecords)
    /\ cut \in 0..MaxTrunc
    /\ cut > 0 => journal # <<>> /\ cut < Len(journal[Len(journal)].bytes)
    /\ \E delivery \in Deliveries :
           /\ delivery.cap = 1 => Len(WireCut(journal, cut)) <= MaxTrickle
           /\ Starts(Decoder_over(WireCut(journal, cut), delivery))
    /\ scanning = FALSE
    /\ calls = 0
    /\ result = "none"
    /\ found = 0
    /\ last = "none"
    /\ at = 0
    /\ sync = [d |-> Journal_new(WireCut(journal, cut)), calls |-> 0,
               result |-> "none"]
    /\ call = NoCall
    /\ heap = <<>>
    /\ tasks = <<>>

SpecChunks == InitChunks /\ [][Next]_vars

\* one call of scan(): [d, ret]
RECURSIVE scan(_)
scan(d) ==
    With(scan_iteration(d), LAMBDA r : IF r.ret = "loop" THEN scan(r.d) ELSE r)

\* the decoder after k calls of scan() and what the last of them returned
RECURSIVE AfterCalls(_, _)
AfterCalls(d, k) ==
    IF k = 0 THEN [d |-> d, ret |-> "none"]
    ELSE With(AfterCalls(d, k - 1), LAMBDA r : scan(r.d))

\* what a caller sees of a decoder: its attributes, tell(), and the bytes it
\* has yet to consume, but not how the stream holds them
Seen(d) == [d EXCEPT !.reader = [tell |-> Stream_tell(@), rest |-> Rest(@)]]

\* the same bytes from a source that returns every read in full
Undivided == AfterCalls(Decoder_new(Delivered, DefaultChunk), calls)

\* C33: what the decoder gives depends on the bytes only, not on how the
\* source splits them over its reads: after each call of scan() the result,
\* the current event, err() and tell() are those a decoder over a source
\* that returns every read in full has after as many calls
C33_ChunkIndependent ==
    ~scanning => \E ref \in {Undivided} : result = ref.ret /\ Seen(Self) = Seen(ref.d)

\* an event emitted after a host declaration, from a source that returns
\* one byte to each read
C33_EventByteByByte ==
    /\ Emitted
    /\ found = 1
    /\ reader.cap = 1
    /\ journal[1].kind = "symbol"
    /\ event.message = <<104, 105>>
    /\ Stream_tell(reader) = Len(Delivered)

\* ---------------------------------------------------------------------
\* the records that leave the current event alone

\* the opcodes of the NOP, HEADER, SPLUNK_PRIVATE, symbol-declaration and
\* state-update records
NonEventOpcodes ==
    {NOP, HEADER, SPLUNK_PRIVATE, NEW_HOST, NEW_SOURCE, NEW_SOURCE_TYPE, NEW_STRING}
        \cup (17..31)

\* the iteration that handles such a record, whole or cut, writes no field
\* of the event
NonEventKeepsEvent == NextOpcode \in NonEventOpcodes => event' = event

\* the event as the last call of scan() that returned True left it
EmittedEvent == AfterCalls(Decoder_new(Delivered, DefaultChunk), found).d.event

\* scan() has returned False at a clean end of stream after an event was
\* emitted
EndedAfterEvent == Stopped /\ error = NoError /\ last = "eof" /\ found >= 1

\* C34: the current event is written only while an event opcode is handled:
\* a NOP, HEADER, symbol-declaration, state-update or SPLUNK_PRIVATE record
\* leaves every field of it as it was, so after the scan() that returns
\* False at a clean end of stream get_event() is still the event last
\* emitted
C34_EventFrame ==
    /\ [][NonEventKeepsEvent]_vars
    /\ [](EndedAfterEvent => event = EmittedEvent)

\* an event, then a host declaration and a state update, then the end of
\* the stream: the last call consumed only records that are not events
C34_EventThenDeclarations ==
    /\ EndedAfterEvent
    /\ cut = 0
    /\ Len(journal) = 3
    /\ journal[1].kind = "event"
    /\ journal[2].kind = "symbol"
    /\ journal[3].kind = "state"
    /\ event.message = <<104, 105>>

\* ---------------------------------------------------------------------
\* a declaration or state update that ends inside its body

\* the iteration reads the opcode of a symbol declaration or a state
\* update and scan() returns False with the end-of-stream error
FailsInsideUpdate ==
    /\ NextOpcode \in {NEW_HOST, NEW_SOURCE, NEW_SOURCE_TYPE, NEW_STRING} \cup (17..31)
    /\ ~scanning'
    /\ result' = "false"
    /\ error' = EOFError

\* C35: a symbol-declaration or state-update record that fails part-way, at
\* the end of the stream inside its body, has no partial effect: the four
\* symbol tables, active_host, active_source, active_source_type and
\* base_event_time are as they were before the opcode was read
C35_NoPartialEffect ==
    [][FailsInsideUpdate =>
         UNCHANGED <<fields, active_host, active_source, active_source_type,
                     base_event_time>>]_vars

\* ---------------------------------------------------------------------
\* the end of the source, once seen

\* the bytes that reach a source after it has returned an empty chunk (a
\* file still being written, a connection that delivers late)
LateBytes == <<7, 8>>

\* the source gets more bytes after the stream has seen its end
SourceGrows ==
    /\ call # NoCall
    /\ call.s.eof
    /\ call.s.src = <<>>
    /\ call' = [call EXCEPT !.s.src = LateBytes, !.data = @ \o LateBytes]
    /\ UNCHANGED <<decoder_vars, heap, tasks, journal, cut, scanning, calls, result, found,
                   last, at, sync>>

NextSticky == NextDiscard \/ SourceGrows

SpecSticky == InitCalls /\ [][NextSticky]_vars

\* the bytes a call needs in the buffer
Needs(c) ==
    IF c.name = "read_byte" THEN 1
    ELSE IF c.name \in {"read", "skip"} /\ c.n > 0 THEN c.n
    ELSE 0

\* a call made on a stream that has seen the end of its source
StickyStep ==
    (call # NoCall /\ call.s.eof /\ call'.data = call.data /\ call' # call) =>
        /\ call'.s.eof
        /\ call'.s.src = call.s.src
        /\ Needs(call') > Len(call.s.buffer) =>
              /\ call'.exc = EOFError
              /\ Stream_tell(call'.s) = Stream_tell(call.s)
              /\ call'.s.buffer = call.s.buffer
        /\ call'.name \in {"read", "read_byte", "skip", "peek"} =>
              Returned(call'.name, JournalStream_call(call'.name, call.s, call'.n))
                  = [s |-> call'.s, v |-> call'.v, k |-> call'.k, exc |-> call'.exc]

\* C36: the end of the source is sticky: once the source has returned an
\* empty chunk the stream does not read it again, whatever it could give,
\* and every later read, read_byte or skip that needs more bytes than are
\* buffered fails with the end-of-stream error and leaves tell() and the
\* buffered bytes as they were
C36_EofIsSticky == [][StickyStep]_vars

\* bytes have reached the source after its end was seen, one byte is still
\* buffered, and a read of two has failed
C36_ReadFailsBesideLateBytes ==
    /\ call # NoCall
    /\ call.name = "read"
    /\ call.n = 2
    /\ call.exc = EOFError
    /\ call.s.eof
    /\ call.s.src = LateBytes
    /\ Len(call.s.buffer) = 1

\* ---------------------------------------------------------------------
\* the size of the buffer

\* the n of the _fill(n) a call makes: read_byte, and each step of
\* read_uvarint and read_varint, asks for one byte
Required(c) ==
    IF c.name \in {"read", "peek", "skip"} THEN Max(c.n, 0)
    ELSE IF c.name \in {"read_byte", "read_uvarint", "read_varint"} THEN 1
    ELSE 0

\* the bytes the call took from the source
Pulled(c, d) == Len(c.s.src) - Len(d.s.src)

\* C37 as stated: after every operation that required n bytes,
\* len(buffer) < n + chunk_size
C37_BufferBelowRequestPlusChunk ==
    (call # NoCall /\ Required(call) >= 1) =>
        Len(call.s.buffer) < Required(call) + call.s.chunk_size

\* what a call does to the buffer
BufferStep ==
    (call # NoCall /\ call' # call) =>
        /\ (Pulled(call, call') > 0 /\ call'.name \notin {"read_uvarint", "read_varint"}) =>
              Len(call.s.buffer) < Required(call')
        /\ Pulled(call, call') > 0 =>
              Len(call'.s.buffer) < Required(call') + call.s.chunk_size
        /\ Pulled(call, call') = 0 => Len(call'.s.buffer) <= Len(call.s.buffer)
        /\ (call'.name \in {"read", "peek", "skip", "read_byte"}
              /\ Len(call.s.buffer) < Required(call') /\ ~call.s.eof) =>
              Pulled(call, call')
                  = Min(Max(call.s.chunk_size, Required(call') - Len(call.s.buffer)),
                        Len(call.s.src))

\* C37, amended: the stream pulls from the source only when the buffer
\* holds fewer than the n bytes the operation needs, a pull asks for
\* max(chunk_size, n - len(buffer)) bytes, an operation that pulled leaves
\* len(buffer) < n + chunk_size, and one that did not pull leaves the
\* buffer no longer than it found it: the buffer stays below the largest
\* request so far plus chunk_size, not below the last one
C37_BufferBound == [][BufferStep]_vars

\* with chunk_size 2, a read_byte has left one byte buffered and peek(2)
\* has pulled two more: three bytes, one short of n + chunk_size
C37_PeekFillsToBound ==
    /\ call # NoCall
    /\ call.name = "peek"
    /\ call.n = 2
    /\ call.s.chunk_size = 2
    /\ Len(call.s.buffer) = 3
    /\ Stream_tell(call.s) = 1

\* ---------------------------------------------------------------------
\* events whose varints take up to ten bytes

\* the longest varint of an event
MaxVarint == 10

\* value as a varint of exactly width bytes: the groups above the value are
\* zero, each byte but the last with the continuation bit
RECURSIVE pad_uvarint(_, _)
pad_uvarint(value, width) ==
    IF width <= 1 THEN <<value % 128>>
    ELSE <<(value % 128) + 128>> \o pad_uvarint(value \div 128, width - 1)

WideMetaEntry(key, extras, width) ==
    pad_uvarint(key, width)
    \o Flatten([i \in 1..Len(extras) |-> pad_uvarint(extras[i], width)])

\* an event with every varint on width bytes; header is the number of bytes
\* from message_length to metadata_count, meta the bytes of the entries
WideEventRec(op, width, storage, index_time_diff, sub_seconds, metadata, message) ==
    With((IF BitSet(op, 4) THEN pad_uvarint(Len(storage), width) ELSE <<>>)
         \o (IF ~BitSet(op, 1) THEN [i \in 1..HASH_SIZE |-> 7] ELSE <<>>)
         \o <<5, 0, 0, 0, 0, 0, 0, 0>>
         \o pad_uvarint(0, width) \o pad_uvarint(0, width)
         \o pad_uvarint(index_time_diff, width)
         \o pad_uvarint(sub_seconds, width)
         \o pad_uvarint(Len(metadata), width), LAMBDA fixed :
    With(Flatten([i \in 1..Len(metadata) |->
                     WideMetaEntry(metadata[i][1], metadata[i][2], width)]), LAMBDA entries :
    With(fixed \o entries \o (IF BitSet(op, 4) THEN storage ELSE <<>>), LAMBDA after :
        [kind |-> "event", op |-> op,
         bytes |-> <<op>> \o pad_uvarint(Len(after) + Len(message), width)
                        \o after \o message,
         wellformed |-> TRUE,
         message |-> message, index_time_diff |-> index_time_diff,
         sub_seconds |-> sub_seconds, metadata |-> metadata,
         value |-> Len(after) + Len(message),
         active_host |-> -1, active_source |-> -1, active_source_type |-> -1,
         header |-> width + Len(fixed), meta |-> Len(entries),
         storage |-> IF BitSet(op, 4) THEN Len(storage) ELSE 0])))

Widths == {1, MaxVarint}

\* legacy events with and without hash, and events with extended storage
\* and hash; metadata entries with one extra (legacy) and with three (key 7)
WideEvents ==
    UNION { { WideEventRec(OLDSTYLE_EVENT, w, <<>>, 100, 3, <<>>, <<104, 105>>),
              WideEventRec(OLDSTYLE_EVENT_WITH_HASH, w, <<>>, 90, 7,
                           << <<1, <<1>> >> >>, <<97>>),
              WideEventRec(38, w, <<9, 9>>, 4, 5,
                           << <<7, <<1, 2, 1>> >>, <<7, <<2, 1, 1>> >> >>, <<120, 255>>),
              WideEventRec(34, w, <<>>, 0, 0, << <<7, <<1, 1, 1>> >> >>, <<>>) }
            : w \in Widths }

WideRecords == WideEvents \cup {SymbolRec(NEW_STRING, <<107>>)}

NextWide == ScanEof \/ ScanNewSymbol \/ ScanEvent

SpecWide == InitOver(WideRecords) /\ [][NextWide]_vars

\* an event whose metadata the decoder rejects after it has decoded and
\* skipped the header: _read_metadata fails on the first entry of a legacy
\* event (C11), decode_field when no NEW_STRING was declared (C9)
MetadataRejected(rec) ==
    rec.metadata # <<>> /\ (rec.op <= 2 \/ NEW_STRING \notin DOMAIN fields)

\* the iteration that handles a whole event
WideEventStep ==
    \A i \in 1..Len(journal) :
        (Reads(i) /\ journal[i].kind = "event" /\ Whole(i)) =>
            /\ journal[i].header <= EVENT_INFO_SIZE
            /\ journal[i].meta <= 4 * 10 * Len(journal[i].metadata)
            /\ ~scanning'
            /\ event'.metadata_count = Len(journal[i].metadata)
            /\ event'.index_time_diff = journal[i].index_time_diff
            /\ event'.time_sub_seconds = journal[i].sub_seconds \div 2
            /\ event'.extended_storage_len = journal[i].storage
            /\ event'.stream_id = <<5, 0, 0, 0, 0, 0, 0, 0>>
            /\ event'.has_hash => event'.hash = [k \in 1..HASH_SIZE |-> 7]
            /\ IF MetadataRejected(journal[i])
               THEN /\ error'.kind \in {"UnboundLocalError", "KeyError"}
                    /\ Stream_tell(reader') = Stream_tell(reader) + 1 + journal[i].header
               ELSE /\ result' = "true"
                    /\ event'.message = journal[i].message
                    /\ Stream_tell(reader') = End(i)
                    /\ Stream_tell(reader') = Stream_tell(reader) + 1 + journal[i].header
                           + journal[i].meta + journal[i].storage
                           + Len(journal[i].message)

\* C38: the fixed lookahead windows are sufficient: for an event whose
\* varints take at most 10 bytes each, the header fields from the message
\* length to the metadata count lie inside the 108 peeked bytes, the
\* metadata entries inside the 40 * metadata_count bytes peeked for them,
\* and the skips commit exactly the bytes decoded, so that the fields are
\* those on the wire and the event ends where its record ends
C38_WindowsSuffice == [][WideEventStep]_vars

\* an event with hash and extended storage, every varint on ten bytes: a
\* header of 98 bytes and two metadata entries of 40 bytes each
C38_WidestEventDecoded ==
    /\ Emitted
    /\ Aligned
    /\ journal[Current].op = 38
    /\ journal[Current].header = 98
    /\ journal[Current].meta = 80
    /\ event.metadata_count = 2
    /\ event.message = <<120, 255>>

(***************************************************************************)
(* Two AsyncJournalDecoder instances in one process.  The heap holds the   *)
(* mutable objects an instance refers to: its AsyncJournalStream, its      *)
(* Event and its fields dict; an object's reference is its index.  A task  *)
(* is the coroutine of a caller that awaits scan() on one instance; the    *)
(* event loop switches tasks where a coroutine waits in                    *)
(* `await self.reader.read(...)` (async_stream.py:28), the only await that *)
(* reaches the source.                                                     *)
(***************************************************************************)
Instances == {1, 2}

Alloc(h, obj) == [heap |-> Append(h, obj), ref |-> Len(h) + 1]

\* __init__ with `fields = {}` an attribute of the class: every instance
\* after the first refers to the first one's dict
AsyncJournalDecoder_init_class_fields(h, data, delivery) ==
    With(Decoder_over(data, delivery), LAMBDA d :
    With(Alloc(h, d.reader), LAMBDA r :
    With(Alloc(r.heap, d.event), LAMBDA e :
    With(IF h = <<>> THEN Alloc(e.heap, d.fields) ELSE [heap |-> e.heap, ref |-> 3],
         LAMBDA f :
        [heap |-> f.heap,
         self |-> [d EXCEPT !.reader = r.ref, !.event = e.ref, !.fields = f.ref]]))))

\* AsyncJournalDecoder(reader): AsyncJournalStream(reader), Event() and {}
\* are objects made by this call; the other attributes are integers and None
AsyncJournalDecoder_init(h, data, delivery) ==
    With(Decoder_over(data, delivery), LAMBDA d :
    With(Alloc(h, d.reader), LAMBDA r :
    With(Alloc(r.heap, d.event), LAMBDA e :
    With(Alloc(e.heap, d.fields), LAMBDA f :
        [heap |-> f.heap,
         self |-> [d EXCEPT !.reader = r.ref, !.event = e.ref, !.fields = f.ref]]))))

\* the instance with the objects its attributes refer to
Load(self, h) ==
    [self EXCEPT !.reader = h[@], !.event = h[@], !.fields = h[@]]

\* a stream outside a running call: no read of the source is pending
Settled(s) == [k \in DOMAIN s \ {"turns"} |-> s[k]]

\* the writes of a coroutine: the objects are mutated in place (buffer.extend,
\* del buffer[:n], event.reset(), fields[...].append), the integers and the
\* error are attributes of the instance
Store(h, self, d) ==
    [h EXCEPT ![self.reader] = Settled(d.reader),
              ![self.event] = d.event,
              ![self.fields] = d.fields]

Attrs(self, d) ==
    [d EXCEPT !.reader = self.reader, !.event = self.event, !.fields = self.fields]

NoFrame == <<>>

\* the journals of the two sources, whole and cut
PairJournals ==
    { <<>>,
      <<SymbolRec(NEW_HOST, <<104>>),
        EventRec(OLDSTYLE_EVENT, -1, <<>>, 100, 3, <<>>, <<104, 105>>)>>,
      <<SymbolRec(NEW_HOST, <<103>>), StateRec(17, <<>>, 7),
        EventRec(OLDSTYLE_EVENT, -1, <<>>, 90, 7, <<>>, <<97>>)>>,
      <<EventRec(OLDSTYLE_EVENT, -1, <<>>, 100, 3, <<>>, <<104, 105>>),
        UnknownRec(255)>>,
      <<HeaderRec(1000),
        EventRec(OLDSTYLE_EVENT, -1, <<>>, 100, 3, <<>>, <<104, 105>>),
        EventRec(OLDSTYLE_EVENT, -1, <<>>, 90, 7, <<>>, <<97>>)>> }

PairSources ==
    { WireCut(j, c) : j \in PairJournals, c \in {0} }
    \cup { WireCut(j, 1) : j \in PairJournals \ {<<>>} }

\* sources that return at most cap bytes of a read
PairDeliveries ==
    { [chunk_size |-> DefaultChunk, cap |-> 7], [chunk_size |-> 2, cap |-> 3] }

\* the process after `a = AsyncJournalDecoder(ra); b = AsyncJournalDecoder(rb)`
InitPair ==
    /\ InitMain({<<>>})
    /\ \E da, db \in PairSources : \E va, vb \in PairDeliveries :
           \E a \in {AsyncJournalDecoder_init(<<>>, da, va)} :
           \E b \in {AsyncJournalDecoder_init(a.heap, db, vb)} :
               /\ heap = b.heap
               /\ tasks = [i \in Instances |->
                      [self |-> IF i = 1 THEN a.self ELSE b.self,
                       data |-> IF i = 1 THEN da ELSE db,
                       delivery |-> IF i = 1 THEN va ELSE vb,
                       phase |-> "idle", frame |-> NoFrame, turns |-> 0,
                       calls |-> 0, ret |-> "none", overtaken |-> FALSE]]

\* scan() from its first statement, with the instance as it was when the
\* call began, up to the read of the source that follows the k the event
\* loop has completed: ret is "suspended" when the coroutine waits there
Run(frame, k) == scan([frame EXCEPT !.reader = Settled(@) @@ [turns |-> k]])

\* the event loop runs the coroutine of instance i up to its next wait or
\* to the return of scan(); a task that waited meanwhile has been overtaken
Advance(i, frame, k) ==
    \E r \in {Run(frame, k)} :
        /\ heap' = Store(heap, tasks[i].self, r.d)
        /\ tasks' = [j \in Instances |->
               IF j # i
               THEN [tasks[j] EXCEPT !.overtaken = @ \/ tasks[j].phase = "awaiting"]
               ELSE IF r.ret = "suspended"
               THEN [tasks[i] EXCEPT !.self = Attrs(@, r.d), !.phase = "awaiting",
                                     !.frame = frame, !.turns = k]
               ELSE [tasks[i] EXCEPT !.self = Attrs(@, r.d), !.phase = "idle",
                                     !.frame = NoFrame, !.turns = 0,
                                     !.calls = @ + 1, !.ret = r.ret]]
        /\ UNCHANGED <<decoder_vars, journal, cut, scanning, calls, result, found,
                       last, at, sync, call>>

\* a caller awaits scan() on its instance; it is the loop
\* `while await decoder.scan():`, which stops at the first False
PairCall ==
    \E i \in Instances :
        /\ tasks[i].phase = "idle"
        /\ tasks[i].ret # "false"
        /\ Advance(i, Load(tasks[i].self, heap), 0)

\* the read a coroutine waits for completes
PairResume ==
    \E i \in Instances :
        /\ tasks[i].phase = "awaiting"
        /\ Advance(i, tasks[i].frame, tasks[i].turns + 1)

NextPair == PairCall \/ PairResume

SpecPair == InitPair /\ [][NextPair]_vars

\* the same instance alone in its process, after as many calls
RunsAlone(t) == AfterCalls(Decoder_over(t.data, t.delivery), t.calls)

\* C39: decoder instances share no mutable state: however the scan() calls
\* of two instances over separate sources are interleaved at the reads of
\* their sources, each instance has after each of its calls the return
\* value, event, tables, error and tell() it has after as many calls when it
\* runs alone
C39_InstancesIndependent ==
    \A i \in DOMAIN tasks :
        tasks[i].phase = "idle" =>
            \E ref \in {RunsAlone(tasks[i])} :
                /\ tasks[i].ret = ref.ret
                /\ Seen(Load(tasks[i].self, heap)) = Seen(ref.d)

C39_BothOvertaken ==
    /\ tasks # <<>>
    /\ \A i \in Instances :
           /\ tasks[i].phase = "idle"
           /\ tasks[i].ret = "true"
           /\ tasks[i].overtaken
    /\ heap[tasks[1].self.event].message = <<104, 105>>
    /\ heap[tasks[2].self.event].message = <<97>>
    /\ heap[tasks[1].self.fields] # heap[tasks[2].self.fields]

====
